---------------------------- MODULE Spec2Model ----------------------------
(***************************************************************************)
(* Candidate extraction and verification of the document processor:       *)
(* backend/app/heuristics.py, excerpts.py, llm_client.py and               *)
(* extract_candidates.py.                                                  *)
(*                                                                         *)
(* A Python str is a sequence of one-character strings.  Offsets into a    *)
(* string are 0-based as in Python: the character at offset p of s is      *)
(* s[p + 1], and the slice s[a:b] is Slice(s, a, b).                       *)
(***************************************************************************)
EXTENDS Integers, Sequences, FiniteSets, TLC

(***************************************************************************)
(* Characters.                                                             *)
(***************************************************************************)
LowerLetters ==
    {"a","b","c","d","e","f","g","h","i","j","k","l","m",
     "n","o","p","q","r","s","t","u","v","w","x","y","z"}

\* str.lower() on the letters: upper-case letter |-> lower-case letter
LowerOf ==
    [A |-> "a", B |-> "b", C |-> "c", D |-> "d", E |-> "e", F |-> "f",
     G |-> "g", H |-> "h", I |-> "i", J |-> "j", K |-> "k", L |-> "l",
     M |-> "m", N |-> "n", O |-> "o", P |-> "p", Q |-> "q", R |-> "r",
     S |-> "s", T |-> "t", U |-> "u", V |-> "v", W |-> "w", X |-> "x",
     Y |-> "y", Z |-> "z"]

UpperLetters == DOMAIN LowerOf

Letters == LowerLetters \cup UpperLetters

Digits == {"0","1","2","3","4","5","6","7","8","9"}

\* \s of the re module, restricted to the characters of the model
Whitespace == {" ", "\t", "\n"}

\* \w of the re module: letters, digits and the underscore
WordChars == Letters \cup Digits \cup {"_"}

Alphabet ==
    WordChars \cup Whitespace \cup {"(", ")", "+", ",", "-", ".", "/", ":", ";", "|"}

\* ord(c): the place of c among the characters of the model in code-point
\* order
Ord ==
    LET AsciiOrder ==
          << "\t", "\n", " ", "(", ")", "+", ",", "-", ".", "/",
             "0","1","2","3","4","5","6","7","8","9", ":", ";",
             "A","B","C","D","E","F","G","H","I","J","K","L","M",
             "N","O","P","Q","R","S","T","U","V","W","X","Y","Z", "_",
             "a","b","c","d","e","f","g","h","i","j","k","l","m",
             "n","o","p","q","r","s","t","u","v","w","x","y","z", "|" >>
    IN [c \in Alphabet |-> CHOOSE i \in DOMAIN AsciiOrder : AsciiOrder[i] = c]

LowerChar(c) == IF c \in UpperLetters THEN LowerOf[c] ELSE c

(***************************************************************************)
(* Python str operations.                                                  *)
(***************************************************************************)
Min(a, b) == IF a <= b THEN a ELSE b

Max(a, b) == IF a >= b THEN a ELSE b

\* s[a:b] for 0 <= a, b
Slice(s, a, b) == SubSeq(s, a + 1, Min(b, Len(s)))

\* s.lower()
StrLower(s) == [i \in DOMAIN s |-> LowerChar(s[i])]

\* the number of leading characters of s that are whitespace
RECURSIVE LeadingWs(_)
LeadingWs(s) ==
    IF s = << >> \/ Head(s) \notin Whitespace THEN 0 ELSE 1 + LeadingWs(Tail(s))

RECURSIVE TrailingWs(_)
TrailingWs(s) ==
    IF s = << >> \/ s[Len(s)] \notin Whitespace THEN 0
    ELSE 1 + TrailingWs(SubSeq(s, 1, Len(s) - 1))

\* s.strip()
StrStrip(s) ==
    LET a == LeadingWs(s)
    IN IF a = Len(s) THEN << >> ELSE SubSeq(s, a + 1, Len(s) - TrailingWs(s))

\* s.lstrip("0")
RECURSIVE LStripZero(_)
LStripZero(s) ==
    IF s # << >> /\ Head(s) = "0" THEN LStripZero(Tail(s)) ELSE s

\* s.startswith(p) at offset pos
StartsAt(s, p, pos) ==
    /\ pos + Len(p) <= Len(s)
    /\ \A i \in 1..Len(p) : s[pos + i] = p[i]

\* p in s
Contains(s, p) == \E pos \in 0..(Len(s) - Len(p)) : StartsAt(s, p, pos)

\* s.find(p, from): the lowest offset >= from where p occurs, or -1
StrFind(s, p, from) ==
    LET hits == {pos \in from..(Len(s) - Len(p)) : StartsAt(s, p, pos)}
    IN IF hits = {} THEN -1 ELSE CHOOSE h \in hits : \A g \in hits : h <= g

\* s.rfind(p, 0, to): the highest offset where p occurs inside s[0:to], or -1
StrRFind(s, p, to) ==
    LET hits == {pos \in 0..(to - Len(p)) : StartsAt(s, p, pos)}
    IN IF hits = {} THEN -1 ELSE CHOOSE h \in hits : \A g \in hits : h >= g

\* s.split("\n")
RECURSIVE SplitLines(_)
SplitLines(s) ==
    LET nl == StrFind(s, <<"\n">>, 0)
    IN IF nl = -1 THEN << s >>
       ELSE << Slice(s, 0, nl) >> \o SplitLines(Slice(s, nl + 1, Len(s)))

\* sep.join(parts)
RECURSIVE StrJoin(_, _)
StrJoin(sep, parts) ==
    IF parts = << >> THEN << >>
    ELSE IF Len(parts) = 1 THEN parts[1]
    ELSE parts[1] \o sep \o StrJoin(sep, Tail(parts))

\* a < b and a <= b on str: lexicographic by code point
RECURSIVE StrLess(_, _)
StrLess(a, b) ==
    IF b = << >> THEN FALSE
    ELSE IF a = << >> THEN TRUE
    ELSE IF Head(a) # Head(b) THEN Ord[Head(a)] < Ord[Head(b)]
    ELSE StrLess(Tail(a), Tail(b))

StrLeq(a, b) == a = b \/ StrLess(a, b)

(***************************************************************************)
(* The regular expressions of the re module that the code uses.  A pattern *)
(* is a sequence of items, each a character class with a greedy repetition *)
(* count {min,max}, or the zero-width word boundary \b.  A regex is a      *)
(* sequence of alternative patterns, tried in order at each offset, which  *)
(* is how the backtracking matcher treats (?:a|b) and an optional group.   *)
(***************************************************************************)
Unbounded == 1000000

One(cls)       == [cls |-> cls, min |-> 1, max |-> 1, wb |-> FALSE]

Opt(cls)       == [cls |-> cls, min |-> 0, max |-> 1, wb |-> FALSE]

Star(cls)      == [cls |-> cls, min |-> 0, max |-> Unbounded, wb |-> FALSE]

Plus(cls)      == [cls |-> cls, min |-> 1, max |-> Unbounded, wb |-> FALSE]

Rep(cls, m, n) == [cls |-> cls, min |-> m, max |-> n, wb |-> FALSE]

WB             == [cls |-> {}, min |-> 0, max |-> 0, wb |-> TRUE]

\* "." without re.DOTALL
Dot == Alphabet \ {"\n"}

\* a literal string under re.IGNORECASE
LitCI(str) ==
    [k \in DOMAIN str |-> One({c \in Alphabet : LowerChar(c) = LowerChar(str[k])})]

\* a literal string, case-sensitive
Lit(str) == [k \in DOMAIN str |-> One({str[k]})]

\* \b at offset pos of s
AtWordBoundary(s, pos) ==
    LET before == pos >= 1 /\ pos <= Len(s) /\ s[pos] \in WordChars
        after  == pos + 1 <= Len(s) /\ s[pos + 1] \in WordChars
    IN before # after

\* how many characters from offset pos on are in cls, at most limit
RECURSIVE RunLength(_, _, _, _)
RunLength(cls, s, pos, limit) ==
    IF limit = 0 \/ pos >= Len(s) \/ s[pos + 1] \notin cls THEN 0
    ELSE 1 + RunLength(cls, s, pos + 1, limit - 1)

\* The backtracking match of items i.. of pat at offset pos: the end offset
\* of each of those items followed by the end of the match, or << >>.
RECURSIVE MatchItems(_, _, _, _)
RECURSIVE TryCounts(_, _, _, _, _)
MatchItems(pat, i, s, pos) ==
    IF i > Len(pat) THEN << pos >>
    ELSE IF pat[i].wb
         THEN IF AtWordBoundary(s, pos)
              THEN LET r == MatchItems(pat, i + 1, s, pos)
                   IN IF r = << >> THEN << >> ELSE << pos >> \o r
              ELSE << >>
         ELSE TryCounts(pat, i, s, pos,
                        RunLength(pat[i].cls, s, pos, pat[i].max))

\* greedy: the longest repetition first, then one character less
TryCounts(pat, i, s, pos, n) ==
    IF n < pat[i].min THEN << >>
    ELSE LET r == MatchItems(pat, i + 1, s, pos + n)
         IN IF r # << >> THEN << pos + n >> \o r
            ELSE TryCounts(pat, i, s, pos, n - 1)

NoMatch == [found |-> FALSE, alt |-> 0, start |-> 0, end |-> 0, ends |-> << >>]

\* the first alternative a.. of regex that matches at offset pos
RECURSIVE MatchAltFrom(_, _, _, _)
MatchAltFrom(regex, a, s, pos) ==
    IF a > Len(regex) THEN NoMatch
    ELSE LET r == MatchItems(regex[a], 1, s, pos)
         IN IF r # << >>
            THEN [found |-> TRUE, alt |-> a, start |-> pos,
                  end |-> r[Len(r)], ends |-> r]
            ELSE MatchAltFrom(regex, a + 1, s, pos)

\* re.match(regex, s)
ReMatch(regex, s) == MatchAltFrom(regex, 1, s, 0)

\* re.search(regex, s) from offset pos on: the leftmost match
RECURSIVE ReSearchFrom(_, _, _)
ReSearchFrom(regex, s, pos) ==
    IF pos > Len(s) THEN NoMatch
    ELSE LET m == MatchAltFrom(regex, 1, s, pos)
         IN IF m.found THEN m ELSE ReSearchFrom(regex, s, pos + 1)

ReSearch(regex, s) == ReSearchFrom(regex, s, 0)

\* re.finditer(regex, s): the non-overlapping matches, left to right
RECURSIVE ReFindIterFrom(_, _, _)
ReFindIterFrom(regex, s, pos) ==
    LET m == ReSearchFrom(regex, s, pos)
    IN IF ~m.found THEN << >>
       ELSE << m >> \o ReFindIterFrom(regex, s,
                           IF m.end > m.start THEN m.end ELSE m.end + 1)

ReFindIter(regex, s) == ReFindIterFrom(regex, s, 0)

\* the text of item i of the matched alternative (a group of one item)
ItemText(m, s, i) ==
    Slice(s, IF i = 1 THEN m.start ELSE m.ends[i - 1], m.ends[i])

\* match.group(0)
Group0(m, s) == Slice(s, m.start, m.end)

(***************************************************************************)
(* Normalizer: heuristics.py, normalize_text .. extract_digits.            *)
(***************************************************************************)
\* re.sub(r"\s+", " ", text)
RECURSIVE CollapseWhitespace(_)
CollapseWhitespace(text) ==
    IF text = << >> THEN << >>
    ELSE IF Head(text) \in Whitespace
         THEN << " " >> \o CollapseWhitespace(
                  SubSeq(text, LeadingWs(text) + 1, Len(text)))
         ELSE << Head(text) >> \o CollapseWhitespace(Tail(text))

\* re.sub(r"[^\w\s\-]", "", text)
StripPunctuation(text) ==
    SelectSeq(text, LAMBDA c : c \in WordChars \/ c \in Whitespace \/ c = "-")

normalize_text(text) ==
    StrStrip(StripPunctuation(CollapseWhitespace(StrLower(text))))

IsDigit(c) == c \in Digits

\* re.sub(r"\D", "", text)
extract_digits(text) == SelectSeq(text, IsDigit)

DigitChars == << "0","1","2","3","4","5","6","7","8","9" >>

\* int(s) of a string of digits
RECURSIVE IntOfDigits(_)
IntOfDigits(s) ==
    IF s = << >> THEN 0
    ELSE 10 * IntOfDigits(SubSeq(s, 1, Len(s) - 1))
         + (CHOOSE i \in DOMAIN DigitChars : DigitChars[i] = s[Len(s)]) - 1

\* str(n) of a natural number
RECURSIVE StrOfInt(_)
StrOfInt(n) ==
    IF n < 10 THEN << DigitChars[n + 1] >>
    ELSE StrOfInt(n \div 10) \o << DigitChars[(n % 10) + 1] >>

DateSep == {"-", "/"}

\* (\d{4})[-/](\d{1,2})[-/](\d{1,2})
DateYmdRe ==
    << << Rep(Digits, 4, 4), One(DateSep), Rep(Digits, 1, 2), One(DateSep),
          Rep(Digits, 1, 2) >> >>

\* (\d{1,2})[-/](\d{1,2})[-/](\d{4})
DateMdyRe ==
    << << Rep(Digits, 1, 2), One(DateSep), Rep(Digits, 1, 2), One(DateSep),
          Rep(Digits, 4, 4) >> >>

\* ([a-zA-Z]+)\s*(\d{1,2}),?\s*(\d{4})
DateMonthDayRe ==
    << << Plus(Letters), Star(Whitespace), Rep(Digits, 1, 2), Opt({","}),
          Star(Whitespace), Rep(Digits, 4, 4) >> >>

\* (\d{1,2})\s+([a-zA-Z]+)\s+(\d{4})
DateDayMonthRe ==
    << << Rep(Digits, 1, 2), Plus(Whitespace), Plus(Letters),
          Plus(Whitespace), Rep(Digits, 4, 4) >> >>

\* the months table of normalize_date
Months ==
    << [name |-> <<"j","a","n","u","a","r","y">>, num |-> 1],
       [name |-> <<"f","e","b","r","u","a","r","y">>, num |-> 2],
       [name |-> <<"m","a","r","c","h">>, num |-> 3],
       [name |-> <<"a","p","r","i","l">>, num |-> 4],
       [name |-> <<"m","a","y">>, num |-> 5],
       [name |-> <<"j","u","n","e">>, num |-> 6],
       [name |-> <<"j","u","l","y">>, num |-> 7],
       [name |-> <<"a","u","g","u","s","t">>, num |-> 8],
       [name |-> <<"s","e","p","t","e","m","b","e","r">>, num |-> 9],
       [name |-> <<"o","c","t","o","b","e","r">>, num |-> 10],
       [name |-> <<"n","o","v","e","m","b","e","r">>, num |-> 11],
       [name |-> <<"d","e","c","e","m","b","e","r">>, num |-> 12],
       [name |-> <<"j","a","n">>, num |-> 1],
       [name |-> <<"f","e","b">>, num |-> 2],
       [name |-> <<"m","a","r">>, num |-> 3],
       [name |-> <<"a","p","r">>, num |-> 4],
       [name |-> <<"j","u","n">>, num |-> 6],
       [name |-> <<"j","u","l">>, num |-> 7],
       [name |-> <<"a","u","g">>, num |-> 8],
       [name |-> <<"s","e","p">>, num |-> 9],
       [name |-> <<"o","c","t">>, num |-> 10],
       [name |-> <<"n","o","v">>, num |-> 11],
       [name |-> <<"d","e","c">>, num |-> 12] >>

\* months.get(name): 0 stands for None
MonthNum(name) ==
    IF \E i \in DOMAIN Months : Months[i].name = name
    THEN Months[CHOOSE i \in DOMAIN Months : Months[i].name = name].num
    ELSE 0

\* mutation: month and day are written without padding
FormatDate_Unpadded(year, month, day) ==
    year \o << "-" >> \o StrOfInt(month) \o << "-" >> \o StrOfInt(day)

\* f"{year}-{month:02d}-{day:02d}"
FormatDate(year, month, day) ==
    LET Format02d(n) == IF n < 10 THEN << "0" >> \o StrOfInt(n) ELSE StrOfInt(n)
    IN year \o << "-" >> \o Format02d(month) \o << "-" >> \o Format02d(day)

\* None: normalize_date found no date
NoDate == << "N", "o", "n", "e" >>

normalize_date(raw) ==
    LET m1 == ReMatch(DateYmdRe, raw)
        m2 == ReMatch(DateMdyRe, raw)
        m3 == ReMatch(DateMonthDayRe, raw)
        m4 == ReMatch(DateDayMonthRe, raw)
        worded ==
            IF m4.found /\ MonthNum(StrLower(ItemText(m4, raw, 3))) # 0
            THEN FormatDate(ItemText(m4, raw, 5),
                            MonthNum(StrLower(ItemText(m4, raw, 3))),
                            IntOfDigits(ItemText(m4, raw, 1)))
            ELSE NoDate
    IN IF m1.found
       THEN FormatDate(ItemText(m1, raw, 1), IntOfDigits(ItemText(m1, raw, 3)),
                       IntOfDigits(ItemText(m1, raw, 5)))
       ELSE IF m2.found
       THEN FormatDate(ItemText(m2, raw, 5), IntOfDigits(ItemText(m2, raw, 1)),
                       IntOfDigits(ItemText(m2, raw, 3)))
       ELSE IF m3.found /\ MonthNum(StrLower(ItemText(m3, raw, 1))) # 0
       THEN FormatDate(ItemText(m3, raw, 6),
                       MonthNum(StrLower(ItemText(m3, raw, 1))),
                       IntOfDigits(ItemText(m3, raw, 3)))
       ELSE worded

\* (normalized_digits, default_country_assumed)
normalize_phone(raw) ==
    LET digits == extract_digits(raw)
    IN IF Len(digits) = 10
       THEN [digits |-> << "1" >> \o digits, default_country_assumed |-> TRUE]
       ELSE [digits |-> digits, default_country_assumed |-> FALSE]

(***************************************************************************)
(* Evidence Verifier: extract_candidates.py, the deterministic             *)
(* hallucination check.  evidence_texts is a sequence of strings.          *)
(***************************************************************************)
_normalize_for_evidence_check(text) == normalize_text(text)

_evidence_supports_string(normalized_value, evidence_texts) ==
    LET norm_value == _normalize_for_evidence_check(normalized_value)
    IN \E i \in DOMAIN evidence_texts :
          Contains(_normalize_for_evidence_check(evidence_texts[i]), norm_value)

\* (\d{4})-(\d{2})-(\d{2})
IsoDateRe ==
    << << Rep(Digits, 4, 4), One({"-"}), Rep(Digits, 2, 2), One({"-"}),
          Rep(Digits, 2, 2) >> >>

\* rf"{a}[-/]{b}[-/]{c}"
DateTripleRe(a, b, c) ==
    << Lit(a) \o << One(DateSep) >> \o Lit(b) \o << One(DateSep) >> \o Lit(c) >>

\* month_names of _evidence_supports_date, by month number
MonthNames ==
    << << <<"j","a","n">>, <<"j","a","n","u","a","r","y">> >>,
       << <<"f","e","b">>, <<"f","e","b","r","u","a","r","y">> >>,
       << <<"m","a","r">>, <<"m","a","r","c","h">> >>,
       << <<"a","p","r">>, <<"a","p","r","i","l">> >>,
       << <<"m","a","y">> >>,
       << <<"j","u","n">>, <<"j","u","n","e">> >>,
       << <<"j","u","l">>, <<"j","u","l","y">> >>,
       << <<"a","u","g">>, <<"a","u","g","u","s","t">> >>,
       << <<"s","e","p">>, <<"s","e","p","t","e","m","b","e","r">> >>,
       << <<"o","c","t">>, <<"o","c","t","o","b","e","r">> >>,
       << <<"n","o","v">>, <<"n","o","v","e","m","b","e","r">> >>,
       << <<"d","e","c">>, <<"d","e","c","e","m","b","e","r">> >> >>

\* month_names.get(month, [])
MonthNamesOf(month) ==
    IF Len(month) = 2 /\ IntOfDigits(month) \in DOMAIN MonthNames
    THEN MonthNames[IntOfDigits(month)]
    ELSE << >>

DateInEvidenceText(year, month, day, ev_text) ==
    \/ ReSearch(DateTripleRe(year, month, day), ev_text).found
    \/ ReSearch(DateTripleRe(year, StrOfInt(IntOfDigits(month)),
                             StrOfInt(IntOfDigits(day))), ev_text).found
    \/ ReSearch(DateTripleRe(month, day, year), ev_text).found
    \/ ReSearch(DateTripleRe(StrOfInt(IntOfDigits(month)),
                             StrOfInt(IntOfDigits(day)), year), ev_text).found
    \/ /\ Contains(ev_text, year)
       /\ Contains(ev_text, LStripZero(day))
       /\ \E k \in DOMAIN MonthNamesOf(month) :
             Contains(StrLower(ev_text), MonthNamesOf(month)[k])

_evidence_supports_date(normalized_value, evidence_texts) ==
    LET match == ReMatch(IsoDateRe, normalized_value)
    IN /\ match.found
       /\ \E i \in DOMAIN evidence_texts :
             DateInEvidenceText(ItemText(match, normalized_value, 1),
                                ItemText(match, normalized_value, 3),
                                ItemText(match, normalized_value, 5),
                                evidence_texts[i])

_evidence_supports_phone(normalized_value, evidence_texts) ==
    LET norm_digits == extract_digits(normalized_value)
    IN /\ Len(norm_digits) >= 10
       /\ \E i \in DOMAIN evidence_texts :
             LET ev_digits == extract_digits(evidence_texts[i])
             IN \/ Contains(ev_digits, norm_digits)
                \/ /\ Head(norm_digits) = "1"
                   /\ Contains(ev_digits, Tail(norm_digits))
                \/ /\ Len(norm_digits) = 11
                   /\ Head(norm_digits) = "1"
                   /\ Contains(ev_digits, Tail(norm_digits))

\* re.split(r"[,;]", s)
RECURSIVE SplitOnSeparators(_)
SplitOnSeparators(s) ==
    LET hits == {p \in 0..(Len(s) - 1) : s[p + 1] \in {",", ";"}}
    IN IF hits = {} THEN << s >>
       ELSE LET p == CHOOSE h \in hits : \A g \in hits : h <= g
            IN << Slice(s, 0, p) >> \o SplitOnSeparators(Slice(s, p + 1, Len(s)))

\* [item.strip() for item in items if item.strip()]
StrippedItems(parts) ==
    SelectSeq([i \in DOMAIN parts |-> StrStrip(parts[i])], LAMBDA s : s # << >>)

_evidence_supports_list(normalized_value, evidence_texts) ==
    IF \E p \in DOMAIN normalized_value : normalized_value[p] \in {",", ";"}
    THEN LET items == StrippedItems(SplitOnSeparators(normalized_value))
             norm_evidence ==
                 _normalize_for_evidence_check(StrJoin(<< " " >>, evidence_texts))
         IN /\ items # << >>
            /\ \A k \in DOMAIN items :
                  LET norm_item == _normalize_for_evidence_check(items[k])
                  IN norm_item = << >> \/ Contains(norm_evidence, norm_item)
    ELSE _evidence_supports_string(normalized_value, evidence_texts)

(***************************************************************************)
(* Data model: models.py.  A field key is an atom; every other str, a     *)
(* document id included, is a sequence of characters.                      *)
(***************************************************************************)
\* Evidence(doc_id, page, quoted_text)
Evidence(doc_id, page, quoted_text) ==
    [doc_id |-> doc_id, page |-> page, quoted_text |-> quoted_text]

\* CandidateScores(anchor_match, validator=0.0, doc_relevance=0.0)
CandidateScores(anchor_match) ==
    [anchor_match |-> anchor_match, validator |-> 0, doc_relevance |-> 0]

\* Candidate(...) as both extraction passes build it: rejected_reasons=[]
Candidate(field, raw_value, normalized_value, evidence, from_method, validators, anchor_match) ==
    [field |-> field, raw_value |-> raw_value,
     normalized_value |-> normalized_value, evidence |-> evidence,
     from_method |-> from_method, validators |-> validators,
     rejected_reasons |-> << >>, scores |-> CandidateScores(anchor_match)]

\* Candidate.is_accepted
is_accepted(c) == Len(c.rejected_reasons) = 0

(***************************************************************************)
(* Heuristic Extractor: heuristics.py.                                     *)
(***************************************************************************)
DATE_PATTERNS ==
    << << << WB, Rep(Digits, 4, 4), One(DateSep), Rep(Digits, 1, 2),
             One(DateSep), Rep(Digits, 1, 2), WB >> >>,
       << << WB, Rep(Digits, 1, 2), One(DateSep), Rep(Digits, 1, 2),
             One(DateSep), Rep(Digits, 4, 4), WB >> >>,
       << << WB, Plus(Letters), Plus(Whitespace), Rep(Digits, 1, 2),
             Opt({","}), Plus(Whitespace), Rep(Digits, 4, 4), WB >> >>,
       << << WB, Rep(Digits, 1, 2), Plus(Whitespace), Plus(Letters),
             Plus(Whitespace), Rep(Digits, 4, 4), WB >> >> >>

\* [-.\s]
PHONE_PATTERNS ==
    LET PhoneSep == {"-", "."} \cup Whitespace
    IN  << << << Opt({"("}), Rep(Digits, 3, 3), Opt({")"}), Opt(PhoneSep),
                Rep(Digits, 3, 3), Opt(PhoneSep), Rep(Digits, 4, 4) >> >>,
          << << WB, Rep(Digits, 3, 3), One(PhoneSep), Rep(Digits, 3, 3),
                One(PhoneSep), Rep(Digits, 4, 4), WB >> >>,
          << << Opt({"+"}), Opt({"1"}), Opt(PhoneSep), Opt({"("}),
                Rep(Digits, 3, 3), Opt({")"}), Opt(PhoneSep), Rep(Digits, 3, 3),
                Opt(PhoneSep), Rep(Digits, 4, 4) >> >>,
          << << WB, One({"1"}), Rep(Digits, 10, 10), WB >> >>,
          << << WB, Rep(Digits, 10, 10), WB >> >> >>

_find_line_containing(text, match_start) ==
    LET nl_before  == StrRFind(text, << "\n" >>, match_start)
        line_start == IF nl_before = -1 THEN 0 ELSE nl_before + 1
        nl_after   == StrFind(text, << "\n" >>, match_start)
        line_end   == IF nl_after = -1 THEN Len(text) ELSE nl_after
    IN StrStrip(Slice(text, line_start, line_end))

\* the lookback window of the anchor score
AnchorWindow == 50

\* any(kw in text_lower[max(0, match_pos - 50):match_pos] for kw in keywords)
HasAnchor(text, match_pos, keywords) ==
    LET context == Slice(StrLower(text), Max(0, match_pos - AnchorWindow), match_pos)
    IN \E k \in DOMAIN keywords : Contains(context, keywords[k])

\* for page in doc.pages: for pattern in patterns: for match in finditer:
\* the matches in the order the loops visit them
RECURSIVE PatternHits(_, _, _)
PatternHits(page, patterns, p) ==
    IF p > Len(patterns) THEN << >>
    ELSE LET ms == ReFindIter(patterns[p], page.full_text)
         IN [k \in DOMAIN ms |-> [page |-> page, match |-> ms[k]]]
            \o PatternHits(page, patterns, p + 1)

RECURSIVE PageHits(_, _, _)
PageHits(pages, patterns, i) ==
    IF i > Len(pages) THEN << >>
    ELSE PatternHits(pages[i], patterns, 1) \o PageHits(pages, patterns, i + 1)

dob_keywords ==
    << <<"d","o","b">>, <<"d","a","t","e"," ","o","f"," ","b","i","r","t","h">>, <<"b","i","r","t","h","d","a","t","e">>, <<"b","i","r","t","h"," ","d","a","t","e">>, <<"b","o","r","n">> >>

\* the body of the innermost loop of _extract_dob_candidates, from hit i on
RECURSIVE DobScan(_, _, _, _, _, _)
DobScan(field, doc, hits, i, candidates, seen_values) ==
    IF i > Len(hits) THEN candidates
    ELSE LET text        == hits[i].page.full_text
             match       == hits[i].match
             raw_value   == StrStrip(Group0(match, text))
             normalized  == normalize_date(raw_value)
             quoted_text == _find_line_containing(text, match.start)
         IN IF \/ normalized = NoDate
               \/ normalized \in seen_values
               \/ StrStrip(quoted_text) = << >>
            THEN DobScan(field, doc, hits, i + 1, candidates, seen_values)
            ELSE DobScan(field, doc, hits, i + 1,
                     Append(candidates,
                         Candidate(field.key, raw_value, normalized,
                             << Evidence(doc.doc_id, hits[i].page.page, quoted_text) >>,
                             "heuristic", << >>,
                             IF HasAnchor(text, match.start, dob_keywords)
                             THEN 1 ELSE 0)),
                     seen_values \cup {normalized})

\* mutation: seen_values starts empty on every page
_extract_dob_candidates_PerPage(field, doc) ==
    LET OfPage(i) == DobScan(field, doc, PageHits(<< doc.pages[i] >>, DATE_PATTERNS, 1),
                             1, << >>, {})
        upto[i \in 0..Len(doc.pages)] ==
            IF i = 0 THEN << >> ELSE upto[i - 1] \o OfPage(i)
    IN upto[Len(doc.pages)]

_extract_dob_candidates(field, doc) ==
    DobScan(field, doc, PageHits(doc.pages, DATE_PATTERNS, 1), 1, << >>, {})

phone_keywords ==
    << <<"p","h","o","n","e">>, <<"m","o","b","i","l","e">>, <<"t","e","l","e","p","h","o","n","e">>, <<"t","e","l">>, <<"c","e","l","l">>, <<"c","o","n","t","a","c","t">> >>

\* the body of the innermost loop of _extract_phone_candidates, from hit i on
RECURSIVE PhoneScan(_, _, _, _, _, _)
PhoneScan(field, doc, hits, i, candidates, seen_values) ==
    IF i > Len(hits) THEN candidates
    ELSE LET text        == hits[i].page.full_text
             match       == hits[i].match
             raw_value   == StrStrip(Group0(match, text))
             phone       == normalize_phone(raw_value)
             quoted_text == _find_line_containing(text, match.start)
         IN IF \/ Len(phone.digits) < 10
               \/ phone.digits \in seen_values
               \/ StrStrip(quoted_text) = << >>
            THEN PhoneScan(field, doc, hits, i + 1, candidates, seen_values)
            ELSE PhoneScan(field, doc, hits, i + 1,
                     Append(candidates,
                         Candidate(field.key, raw_value, phone.digits,
                             << Evidence(doc.doc_id, hits[i].page.page, quoted_text) >>,
                             "heuristic",
                             IF phone.default_country_assumed
                             THEN << "default_country_assumed" >> ELSE << >>,
                             IF HasAnchor(text, match.start, phone_keywords)
                             THEN 1 ELSE 0)),
                     seen_values \cup {phone.digits})

_extract_phone_candidates(field, doc) ==
    PhoneScan(field, doc, PageHits(doc.pages, PHONE_PATTERNS, 1), 1, << >>, {})

\* \s*:\s*(.+), the tail of every "<label>: <value>" line pattern
LabelTail == << Star(Whitespace), One({":"}), Star(Whitespace), Plus(Dot) >>

\* name_patterns of _extract_name_candidates
name_patterns ==
    << << LitCI(<<"p","a","t","i","e","n","t">>) \o << Plus(Whitespace) >> \o LitCI(<<"n","a","m","e">>) \o LabelTail,
          LitCI(<<"n","a","m","e">>) \o LabelTail >>,
       << LitCI(<<"f","u","l","l">>) \o << Plus(Whitespace) >> \o LitCI(<<"n","a","m","e">>) \o LabelTail >>,
       << LitCI(<<"p","a","t","i","e","n","t">>) \o LabelTail >> >>

\* for page in doc.pages: for line in text.split("\n"): the lines in order
RECURSIVE PageLines(_, _)
PageLines(pages, i) ==
    IF i > Len(pages) THEN << >>
    ELSE LET lines == SplitLines(pages[i].full_text)
         IN [k \in DOMAIN lines |-> [page |-> pages[i], line |-> lines[k]]]
            \o PageLines(pages, i + 1)

\* match.group(1) of a line pattern: the text of its last item, (.+)
Group1(regex, m, line) == ItemText(m, line, Len(regex[m.alt]))

\* re.sub(r"[,;:\.\|]+$", "", s)
RECURSIVE StripTrailingPunct(_)
StripTrailingPunct(s) ==
    IF s # << >> /\ s[Len(s)] \in {",", ";", ":", ".", "|"}
    THEN StripTrailingPunct(SubSeq(s, 1, Len(s) - 1))
    ELSE s

\* the longest name accepted
MaxNameLen == 100

\* sum(c.isdigit() for c in s)
DigitCount(s) == Len(SelectSeq(s, IsDigit))

\* for pattern in name_patterns: the body of the loop for one line, from
\* pattern p on; the result is the pair (candidates, seen_values)
RECURSIVE NamePatternScan(_, _, _, _, _, _)
NamePatternScan(field, doc, entry, p, candidates, seen_values) ==
    IF p > Len(name_patterns)
    THEN [candidates |-> candidates, seen_values |-> seen_values]
    ELSE LET match      == ReSearch(name_patterns[p], entry.line)
             raw_value  == StrStrip(StripTrailingPunct(
                               StrStrip(Group1(name_patterns[p], match, entry.line))))
             normalized == normalize_text(raw_value)
         IN IF \/ ~match.found
               \/ Len(raw_value) < 2
               \/ Len(raw_value) > MaxNameLen
               \/ 2 * DigitCount(raw_value) > Len(raw_value)
               \/ normalized \in seen_values
               \/ normalized = << >>
            THEN NamePatternScan(field, doc, entry, p + 1, candidates, seen_values)
            ELSE NamePatternScan(field, doc, entry, p + 1,
                     Append(candidates,
                         Candidate(field.key, raw_value, normalized,
                             << Evidence(doc.doc_id, entry.page.page,
                                         StrStrip(entry.line)) >>,
                             "heuristic", << >>, 1)),
                     seen_values \cup {normalized})

RECURSIVE NameScan(_, _, _, _, _, _)
NameScan(field, doc, lines, i, candidates, seen_values) ==
    IF i > Len(lines) THEN candidates
    ELSE IF StrStrip(lines[i].line) = << >>
         THEN NameScan(field, doc, lines, i + 1, candidates, seen_values)
         ELSE LET r == NamePatternScan(field, doc, lines[i], 1, candidates,
                                       seen_values)
              IN NameScan(field, doc, lines, i + 1, r.candidates, r.seen_values)

_extract_name_candidates(field, doc) ==
    NameScan(field, doc, PageLines(doc.pages, 1), 1, << >>, {})

\* rf"(?:{keyword_pattern})\s*:\s*(.+)", one alternative per keyword
KeywordLineRe(keywords) ==
    [k \in DOMAIN keywords |-> LitCI(keywords[k]) \o LabelTail]

RECURSIVE ListScan(_, _, _, _, _, _, _)
ListScan(field, doc, regex, lines, i, candidates, seen_values) ==
    IF i > Len(lines) THEN candidates
    ELSE LET line       == lines[i].line
             match      == ReSearch(regex, line)
             raw_value  == StrStrip(Group1(regex, match, line))
             normalized == normalize_text(raw_value)
         IN IF \/ StrStrip(line) = << >>
               \/ ~match.found
               \/ Len(raw_value) < 2
               \/ normalized \in seen_values
               \/ normalized = << >>
            THEN ListScan(field, doc, regex, lines, i + 1, candidates, seen_values)
            ELSE ListScan(field, doc, regex, lines, i + 1,
                     Append(candidates,
                         Candidate(field.key, raw_value, normalized,
                             << Evidence(doc.doc_id, lines[i].page.page,
                                         StrStrip(line)) >>,
                             "heuristic", << >>, 1)),
                     seen_values \cup {normalized})

_extract_list_field_candidates(field, doc, keywords) ==
    ListScan(field, doc, KeywordLineRe(keywords), PageLines(doc.pages, 1), 1,
             << >>, {})

allergies_keywords ==
    << <<"a","l","l","e","r","g","i","e","s">>, <<"a","l","l","e","r","g","y">>, <<"a","l","l","e","r","g","i","c"," ","t","o">>, <<"k","n","o","w","n"," ","a","l","l","e","r","g","i","e","s">> >>

medications_keywords ==
    << <<"m","e","d","i","c","a","t","i","o","n","s">>, <<"m","e","d","s">>, <<"c","u","r","r","e","n","t"," ","m","e","d","i","c","a","t","i","o","n","s">>, <<"p","r","e","s","c","r","i","p","t","i","o","n","s">>, <<"r","x">> >>

_extract_allergies_candidates(field, doc) ==
    _extract_list_field_candidates(field, doc, allergies_keywords)

_extract_medications_candidates(field, doc) ==
    _extract_list_field_candidates(field, doc, medications_keywords)

\* the keys of the dispatch table _EXTRACTORS that the model covers
ExtractorKeys == {"dob", "phone", "full_name", "allergies", "medications"}

\* _EXTRACTORS[field.key](field, doc)
Extractor(field, doc) ==
    CASE field.key = "dob"         -> _extract_dob_candidates(field, doc)
      [] field.key = "phone"       -> _extract_phone_candidates(field, doc)
      [] field.key = "full_name"   -> _extract_name_candidates(field, doc)
      [] field.key = "allergies"   -> _extract_allergies_candidates(field, doc)
      [] field.key = "medications" -> _extract_medications_candidates(field, doc)

RECURSIVE ExtendOverDocs(_, _, _)
ExtendOverDocs(field, routed_docs, i) ==
    IF i > Len(routed_docs) THEN << >>
    ELSE Extractor(field, routed_docs[i]) \o ExtendOverDocs(field, routed_docs, i + 1)

heuristic_candidates_for_field(field, routed_docs) ==
    IF field.key \notin ExtractorKeys THEN << >>
    ELSE ExtendOverDocs(field, routed_docs, 1)

\* mutation: the verifier takes the heuristic extractor's word
evidence_supports_value_TrustHeuristic(field, candidate) ==
    LET evidence_texts ==
            [i \in DOMAIN candidate.evidence |-> candidate.evidence[i].quoted_text]
    IN \/ candidate.from_method = "heuristic"
       \/ /\ candidate.evidence # << >>
          /\ \A i \in DOMAIN candidate.evidence :
                /\ candidate.evidence[i].doc_id # << >>
                /\ candidate.evidence[i].page # 0
                /\ candidate.evidence[i].quoted_text # << >>
          /\ CASE field.type = "date" ->
                      _evidence_supports_date(candidate.normalized_value, evidence_texts)
               [] field.type = "phone" ->
                      _evidence_supports_phone(candidate.normalized_value, evidence_texts)
               [] field.type = "string_or_list" ->
                      _evidence_supports_list(candidate.normalized_value, evidence_texts)
               [] OTHER ->
                      _evidence_supports_string(candidate.normalized_value, evidence_texts)

\* evidence_supports_value(field, candidate)
evidence_supports_value(field, candidate) ==
    LET evidence_texts ==
            [i \in DOMAIN candidate.evidence |-> candidate.evidence[i].quoted_text]
    IN /\ candidate.evidence # << >>
       /\ \A i \in DOMAIN candidate.evidence :
             /\ candidate.evidence[i].doc_id # << >>
             /\ candidate.evidence[i].page # 0
             /\ candidate.evidence[i].quoted_text # << >>
       /\ CASE field.type = "date" ->
                   _evidence_supports_date(candidate.normalized_value, evidence_texts)
            [] field.type = "phone" ->
                   _evidence_supports_phone(candidate.normalized_value, evidence_texts)
            [] field.type = "string_or_list" ->
                   _evidence_supports_list(candidate.normalized_value, evidence_texts)
            [] OTHER ->
                   _evidence_supports_string(candidate.normalized_value, evidence_texts)

\* mutation: the weight of anchor_match is 1.0
_compute_provisional_confidence_Full(candidate) == 100 * candidate.scores.anchor_match

\* 0.45 * candidate.scores.anchor_match, in hundredths
_compute_provisional_confidence(candidate) == 45 * candidate.scores.anchor_match

\* AUTOFILL_THRESHOLD = 0.75, in hundredths
AUTOFILL_THRESHOLD == 75

DEFAULT_MAX_TOTAL_CHARS == 8000

DEFAULT_MAX_CHARS_PER_DOC == 4000

DEFAULT_MAX_PAGES_PER_DOC == 3

(***************************************************************************)
(* Excerpt Builder: excerpts.py.                                           *)
(***************************************************************************)
\* the characters of each supported field key (SUPPORTED_FIELD_KEYS)
KeyText ==
    [full_name |-> <<"f","u","l","l","_","n","a","m","e">>,
     dob |-> <<"d","o","b">>,
     phone |-> <<"p","h","o","n","e">>,
     address |-> <<"a","d","d","r","e","s","s">>,
     insurance_member_id |-> <<"i","n","s","u","r","a","n","c","e","_","m","e","m","b","e","r","_","i","d">>,
     allergies |-> <<"a","l","l","e","r","g","i","e","s">>,
     medications |-> <<"m","e","d","i","c","a","t","i","o","n","s">>]

\* FIELD_ALIASES of routing.py
FIELD_ALIASES ==
    [full_name |-> << <<"f","u","l","l","_","n","a","m","e">>, <<"n","a","m","e">>, <<"p","a","t","i","e","n","t","_","n","a","m","e">> >>,
     dob |-> << <<"d","o","b">>, <<"d","a","t","e","_","o","f","_","b","i","r","t","h">>, <<"b","i","r","t","h","d","a","t","e">> >>,
     phone |-> << <<"p","h","o","n","e">>, <<"m","o","b","i","l","e">>, <<"t","e","l","e","p","h","o","n","e">> >>,
     address |-> << <<"a","d","d","r","e","s","s">>, <<"s","t","r","e","e","t">> >>,
     insurance_member_id |-> << <<"i","n","s","u","r","a","n","c","e","_","m","e","m","b","e","r","_","i","d">>, <<"m","e","m","b","e","r","_","i","d">>, <<"p","o","l","i","c","y">>, <<"i","n","s","u","r","a","n","c","e","_","i","d">> >>,
     allergies |-> << <<"a","l","l","e","r","g","i","e","s">>, <<"a","l","l","e","r","g","y">> >>,
     medications |-> << <<"m","e","d","i","c","a","t","i","o","n","s">>, <<"m","e","d","s">> >>]

\* a FieldSpec label of << >> stands for None
_get_field_keywords(field) ==
    {StrLower(KeyText[field.key])}
    \cup (IF field.label # << >> THEN {StrLower(field.label)} ELSE {})
    \cup {StrLower(FIELD_ALIASES[field.key][i]) : i \in DOMAIN FIELD_ALIASES[field.key]}

_page_contains_keyword(page_text, keywords) ==
    \E kw \in keywords : Contains(StrLower(page_text), kw)

DocExcerpt(doc_id, page, text) == [doc_id |-> doc_id, page |-> page, text |-> text]

\* sorted(pages, key=lambda p: p.page): insert p after the entries <= it
RECURSIVE InsertPage(_, _)
InsertPage(sorted, p) ==
    IF sorted = << >> THEN << p >>
    ELSE IF sorted[Len(sorted)].page <= p.page THEN Append(sorted, p)
    ELSE Append(InsertPage(SubSeq(sorted, 1, Len(sorted) - 1), p), sorted[Len(sorted)])

RECURSIVE SortPages(_)
SortPages(pages) ==
    IF pages = << >> THEN << >>
    ELSE InsertPage(SortPages(SubSeq(pages, 1, Len(pages) - 1)), pages[Len(pages)])

\* mutation: every matching page is selected
SelectedPages_All(doc, keywords, max_pages_per_doc) ==
    LET sorted_pages == SortPages(doc.pages)
        matching == SelectSeq(sorted_pages,
                        LAMBDA p : _page_contains_keyword(p.full_text, keywords))
    IN IF matching = << >> /\ sorted_pages # << >>
       THEN << sorted_pages[1] >> ELSE matching

\* pick up to max_pages_per_doc matching pages, or the first page
SelectedPages(doc, keywords, max_pages_per_doc) ==
    LET sorted_pages == SortPages(doc.pages)
        matching == SelectSeq(sorted_pages,
                        LAMBDA p : _page_contains_keyword(p.full_text, keywords))
        chosen   == IF matching = << >> /\ sorted_pages # << >>
                    THEN << sorted_pages[1] >> ELSE matching
    IN SubSeq(chosen, 1, Min(Max(max_pages_per_doc, 0), Len(chosen)))

\* the loop over the selected pages of one document, from page i on
RECURSIVE ExcerptPages(_, _, _, _, _, _, _, _)
ExcerptPages(doc, pages, i, excerpts, total_chars, doc_chars_used, max_total_chars, max_chars_per_doc) ==
    IF \/ i > Len(pages)
       \/ total_chars >= max_total_chars
       \/ doc_chars_used >= max_chars_per_doc
    THEN [excerpts |-> excerpts, total_chars |-> total_chars]
    ELSE LET max_for_this_page == Min(max_chars_per_doc - doc_chars_used,
                                      max_total_chars - total_chars)
             text == Slice(pages[i].full_text, 0, max_for_this_page)
         IN IF text # << >>
            THEN ExcerptPages(doc, pages, i + 1,
                     Append(excerpts, DocExcerpt(doc.doc_id, pages[i].page, text)),
                     total_chars + Len(text), doc_chars_used + Len(text),
                     max_total_chars, max_chars_per_doc)
            ELSE ExcerptPages(doc, pages, i + 1, excerpts, total_chars,
                     doc_chars_used, max_total_chars, max_chars_per_doc)

\* the loop over the routed documents, from document d on
RECURSIVE ExcerptDocs(_, _, _, _, _, _, _, _)
ExcerptDocs(keywords, routed_docs, d, excerpts, total_chars, max_total_chars, max_chars_per_doc, max_pages_per_doc) ==
    IF d > Len(routed_docs) \/ total_chars >= max_total_chars THEN excerpts
    ELSE LET r == ExcerptPages(routed_docs[d],
                      SelectedPages(routed_docs[d], keywords, max_pages_per_doc),
                      1, excerpts, total_chars, 0, max_total_chars,
                      max_chars_per_doc)
         IN ExcerptDocs(keywords, routed_docs, d + 1, r.excerpts, r.total_chars,
                        max_total_chars, max_chars_per_doc, max_pages_per_doc)

build_excerpts_for_field(field, routed_docs, max_total_chars, max_chars_per_doc, max_pages_per_doc) ==
    ExcerptDocs(_get_field_keywords(field), routed_docs, 1, << >>, 0,
                max_total_chars, max_chars_per_doc, max_pages_per_doc)

(***************************************************************************)
(* Generator Client: llm_client.py.  A response text is modelled by what   *)
(* json.loads makes of it: either it does not decode, or it decodes to a   *)
(* JSON value.  JSON values are tagged records; a JSON object is a function *)
(* from its keys to JSON values.                                           *)
(***************************************************************************)
JNull == [t |-> "null"]

JStr(s) == [t |-> "str", v |-> s]

JNum(n) == [t |-> "num", v |-> n]

JList(items) == [t |-> "list", v |-> items]

JDict(d) == [t |-> "dict", v |-> d]

\* bool(j) as used by "if not x"
Truthy(j) ==
    CASE j.t = "null" -> FALSE
      [] j.t = "str"  -> j.v # << >>
      [] j.t = "num"  -> j.v # 0
      [] j.t = "list" -> j.v # << >>
      [] j.t = "dict" -> DOMAIN j.v # {}

\* item.get(key, default)
Get(item, key, default) == IF key \in DOMAIN item.v THEN item.v[key] ELSE default

\* str(j) of a JSON string or number
PyStr(j) ==
    IF j.t = "str" THEN j.v
    ELSE IF j.v < 0 THEN << "-" >> \o StrOfInt(0 - j.v) ELSE StrOfInt(j.v)

\* int(j): a number is itself, a string is parsed (ValueError when it is
\* not an optionally signed run of digits), a list or an object is a
\* TypeError
PyInt(j) ==
    IF j.t = "num" THEN [status |-> "ok", v |-> j.v]
    ELSE IF j.t = "str"
    THEN LET s      == StrStrip(j.v)
             signed == s # << >> /\ s[1] \in {"+", "-"}
             body   == IF signed THEN SubSeq(s, 2, Len(s)) ELSE s
         IN IF body # << >> /\ \A i \in DOMAIN body : IsDigit(body[i])
            THEN [status |-> "ok",
                  v |-> IF signed /\ s[1] = "-" THEN 0 - IntOfDigits(body)
                        ELSE IntOfDigits(body)]
            ELSE [status |-> "ValueError", v |-> 0]
    ELSE [status |-> "TypeError", v |-> 0]

_normalize_value_for_field(field, raw_value) ==
    IF field.type = "date"
    THEN LET normalized == normalize_date(raw_value)
         IN IF normalized # NoDate THEN normalized ELSE normalize_text(raw_value)
    ELSE IF field.type = "phone" THEN normalize_phone(raw_value).digits
    ELSE normalize_text(raw_value)

\* the exception a normalizer raises when handed a value that is not a str:
\* re.match and re.sub raise TypeError, text.lower() AttributeError
NonStringFailure(field) ==
    IF field.type \in {"date", "phone"} THEN "TypeError" ELSE "AttributeError"

\* mutation: evidence entries are taken as they come, without the
\* validators of Evidence
RECURSIVE ParseEvidence_Unvalidated(_, _, _)
ParseEvidence_Unvalidated(evidence_list, i, evidence_objs) ==
    IF i > Len(evidence_list) THEN [status |-> "ok", objs |-> evidence_objs]
    ELSE LET ev == evidence_list[i]
             skip == ParseEvidence_Unvalidated(evidence_list, i + 1, evidence_objs)
         IN IF ev.t # "dict" THEN skip
            ELSE LET doc_id      == Get(ev, "doc_id", JStr(<< >>))
                     page        == Get(ev, "page", JNum(0))
                     quoted_text == Get(ev, "quoted_text", JStr(<< >>))
                     n           == PyInt(page)
                 IN IF ~Truthy(doc_id) \/ ~Truthy(page) \/ ~Truthy(quoted_text)
                    THEN skip
                    ELSE IF n.status = "TypeError"
                    THEN [status |-> "TypeError", objs |-> << >>]
                    ELSE IF n.status = "ValueError" THEN skip
                    ELSE ParseEvidence_Unvalidated(evidence_list, i + 1,
                             Append(evidence_objs,
                                    Evidence(PyStr(doc_id), n.v, PyStr(quoted_text))))

\* the loop over evidence_list, from entry i on; a status other than "ok"
\* is the exception that leaves the loop
RECURSIVE ParseEvidence(_, _, _)
ParseEvidence(evidence_list, i, evidence_objs) ==
    IF i > Len(evidence_list) THEN [status |-> "ok", objs |-> evidence_objs]
    ELSE LET ev == evidence_list[i]
             skip == ParseEvidence(evidence_list, i + 1, evidence_objs)
         IN IF ev.t # "dict" THEN skip
            ELSE LET doc_id      == Get(ev, "doc_id", JStr(<< >>))
                     page        == Get(ev, "page", JNum(0))
                     quoted_text == Get(ev, "quoted_text", JStr(<< >>))
                 IN IF ~Truthy(doc_id) \/ ~Truthy(page) \/ ~Truthy(quoted_text)
                    THEN skip
                    ELSE LET n == PyInt(page)
                         IN IF n.status = "TypeError"
                            THEN [status |-> "TypeError", objs |-> << >>]
                            ELSE IF \/ n.status = "ValueError"
                                    \/ StrStrip(PyStr(doc_id)) = << >>
                                    \/ n.v < 1
                                    \/ StrStrip(PyStr(quoted_text)) = << >>
                            THEN skip
                            ELSE ParseEvidence(evidence_list, i + 1,
                                     Append(evidence_objs,
                                            Evidence(PyStr(doc_id), n.v,
                                                     PyStr(quoted_text))))

\* one iteration of the loop over data: "skip" (continue), "ok" with the
\* candidate, or the exception that escapes
ParseItem(field, item) ==
    LET raw_value  == Get(item, "raw_value", JStr(<< >>))
        given      == Get(item, "normalized_value", JNull)
        evidence_list == Get(item, "evidence", JList(<< >>))
        parsed     == ParseEvidence(evidence_list.v, 1, << >>)
        normalized_value ==
            IF Truthy(given) THEN PyStr(given)
            ELSE _normalize_value_for_field(field, raw_value.v)
        validators ==
            IF field.type = "phone"
               /\ normalize_phone(raw_value.v).default_country_assumed
            THEN << "default_country_assumed" >> ELSE << >>
        skip == [status |-> "skip"]
    IN IF item.t # "dict" THEN skip
       ELSE IF ~Truthy(raw_value) THEN skip
       ELSE IF ~Truthy(given) /\ raw_value.t # "str"
       THEN [status |-> NonStringFailure(field)]
       ELSE IF ~Truthy(evidence_list) THEN skip
       ELSE IF evidence_list.t = "num" THEN [status |-> "TypeError"]
       ELSE IF evidence_list.t # "list" THEN skip
       ELSE IF parsed.status # "ok" THEN [status |-> parsed.status]
       ELSE IF parsed.objs = << >> THEN skip
       ELSE IF field.type = "phone" /\ raw_value.t # "str"
       THEN [status |-> "TypeError"]
       ELSE [status |-> "ok",
             candidate |-> Candidate(field.key, PyStr(raw_value),
                                     normalized_value, parsed.objs, "llm",
                                     validators, 1)]

RECURSIVE ParseItems(_, _, _, _)
\* the rest of one iteration of the loop over data, r being what the item gave
AfterItem(field, data, i, candidates, r) ==
    IF r.status = "skip" THEN ParseItems(field, data, i + 1, candidates)
    ELSE IF r.status = "ok"
    THEN ParseItems(field, data, i + 1, Append(candidates, r.candidate))
    ELSE [status |-> r.status, candidates |-> << >>]

ParseItems(field, data, i, candidates) ==
    IF i > Len(data) THEN [status |-> "ok", candidates |-> candidates]
    ELSE AfterItem(field, data, i, candidates, ParseItem(field, data[i]))

\* mutation: the parser applies the evidence check to what it returns
_parse_llm_response_Verifying(field, response) ==
    IF ~response.decodes \/ response.data.t # "list"
    THEN [status |-> "ValueError", candidates |-> << >>]
    ELSE LET r == ParseItems(field, response.data.v, 1, << >>)
         IN [status |-> r.status,
             candidates |-> [i \in DOMAIN r.candidates |->
                IF evidence_supports_value(field, r.candidates[i])
                THEN r.candidates[i]
                ELSE [r.candidates[i] EXCEPT
                         !.rejected_reasons = << "unsupported_by_evidence" >>]]]

\* _parse_llm_response(field, response_text): status "ok" with the
\* candidates, "ValueError" (invalid JSON, or not a JSON array), or the
\* exception that escapes the item loop
_parse_llm_response(field, response) ==
    IF ~response.decodes THEN [status |-> "ValueError", candidates |-> << >>]
    ELSE IF response.data.t # "list"
    THEN [status |-> "ValueError", candidates |-> << >>]
    ELSE ParseItems(field, response.data.v, 1, << >>)

(***************************************************************************)
(* Orchestrator: extract_candidates.py.                                    *)
(***************************************************************************)
\* the routing entry of field_key is the first one naming it
RECURSIVE FindEntry(_, _, _)
FindEntry(field_key, routing, i) ==
    IF i > Len(routing) THEN 0
    ELSE IF routing[i].field = field_key THEN i
    ELSE FindEntry(field_key, routing, i + 1)

\* mutation: every document of the layout counts as routed
_get_routed_docs_All(field_key, routing, layout) == layout

_get_routed_docs(field_key, routing, layout) ==
    LET e == FindEntry(field_key, routing, 1)
        InLayout(doc_id) == \E j \in DOMAIN layout : layout[j].doc_id = doc_id
        \* layout_map keeps the last document of each doc_id
        LayoutMap(doc_id) ==
            layout[CHOOSE j \in DOMAIN layout :
                      /\ layout[j].doc_id = doc_id
                      /\ \A k \in DOMAIN layout : layout[k].doc_id = doc_id => k <= j]
    IN IF e = 0 THEN << >>
       ELSE LET present == SelectSeq(routing[e].doc_ids, InLayout)
            IN [i \in DOMAIN present |-> LayoutMap(present[i])]

\* the sort key (field, method_order, normalized_value) of a before that of b
SortKeyLess(a, b) ==
    LET method_order(c) == IF c.from_method = "heuristic" THEN 0
                           ELSE IF c.from_method = "llm" THEN 1 ELSE 2
    IN \/ StrLess(KeyText[a.field], KeyText[b.field])
       \/ /\ a.field = b.field
          /\ \/ method_order(a) < method_order(b)
             \/ /\ method_order(a) = method_order(b)
                /\ StrLess(a.normalized_value, b.normalized_value)

\* sorted() is stable: c goes after every entry that is not greater than it
RECURSIVE InsertSorted(_, _)
InsertSorted(sorted, c) ==
    IF sorted = << >> THEN << c >>
    ELSE IF ~SortKeyLess(c, sorted[Len(sorted)]) THEN Append(sorted, c)
    ELSE Append(InsertSorted(SubSeq(sorted, 1, Len(sorted) - 1), c),
                sorted[Len(sorted)])

\* mutation: the list is left in the order of collection
_sort_candidates_Unsorted(candidates) == candidates

RECURSIVE _sort_candidates(_)
_sort_candidates(candidates) ==
    IF candidates = << >> THEN << >>
    ELSE InsertSorted(_sort_candidates(SubSeq(candidates, 1, Len(candidates) - 1)),
                      candidates[Len(candidates)])

\* mutation: no candidate is marked
ApplyEvidenceCheck_NoMark(field, candidates) == candidates

\* the evidence check both passes apply: an unsupported candidate is kept
\* and marked
ApplyEvidenceCheck(field, candidates) ==
    [i \in DOMAIN candidates |->
        IF ~evidence_supports_value(field, candidates[i])
        THEN [candidates[i] EXCEPT
                 !.rejected_reasons = Append(@, "unsupported_by_evidence")]
        ELSE candidates[i]]

\* mutation: the client is asked only when nothing was accepted
should_call_llm_NoneAccepted(accepted_heuristic) == accepted_heuristic = << >>

should_call_llm(accepted_heuristic) ==
    \/ accepted_heuristic = << >>
    \/ LET confidences == {_compute_provisional_confidence(accepted_heuristic[i]) :
                              i \in DOMAIN accepted_heuristic}
           best_confidence == CHOOSE m \in confidences : \A x \in confidences : x <= m
       IN best_confidence < AUTOFILL_THRESHOLD

\* mutation: the client is asked whatever the excerpts
ShouldInvoke_Always(excerpts) == TRUE

\* the client is asked only when the excerpt builder produced something
ShouldInvoke(excerpts) == excerpts # << >>

\* mutation: no exception of the client is handled per field
IsFieldLevelError_None(kind) == FALSE

\* mutation: every exception of the client is handled per field
IsFieldLevelError_Any(kind) == TRUE

\* the except clause around the generator pass
IsFieldLevelError(kind) == kind = "LLMInvalidJSONError"

\* mutation: every parse failure is retried
AfterValueError_AlwaysRetry(n) == "retry"

\* after _parse_llm_response raised ValueError on attempt number n
AfterValueError(n) == IF n = 1 THEN "retry" ELSE "LLMInvalidJSONError"

FieldStats(heuristic_count, llm_used, field_candidates) ==
    [heuristic_count |-> heuristic_count, llm_used |-> llm_used,
     accepted_count |-> Len(SelectSeq(field_candidates, is_accepted)),
     rejected_count |-> Len(SelectSeq(field_candidates,
                                      LAMBDA c : ~is_accepted(c)))]

\* a trace event: its step, its status and the kind of its error ("" if none)
TraceEvent(step, status, kind) == [step |-> step, status |-> status, error |-> kind]

(***************************************************************************)
(* Inputs: the artifacts of a run and the responses of the external        *)
(* generator.                                                              *)
(***************************************************************************)
FIELD_TYPES ==
    [full_name |-> "string", dob |-> "date", phone |-> "phone",
     address |-> "string", insurance_member_id |-> "string",
     allergies |-> "string_or_list", medications |-> "string_or_list"]

\* FieldSpec(key=..., label=..., type=...): what the constructor gives, the
\* model itself or the ValidationError it raises. key_must_be_supported is
\* the only validator; type is checked against the FieldType literal alone.
FieldSpec(key, label, type) ==
    LET SUPPORTED_FIELD_KEYS ==
            {"full_name", "dob", "phone", "address", "insurance_member_id",
             "allergies", "medications"}
        FieldType == {"string", "date", "phone", "string_or_list"}
    IN IF key \in SUPPORTED_FIELD_KEYS /\ type \in FieldType
       THEN [raised |-> "", value |-> [key |-> key, label |-> label, type |-> type]]
       ELSE [raised |-> "ValidationError", value |-> << >>]

\* _make_field_spec(key), label=None
_make_field_spec(key) == FieldSpec(key, << >>, FIELD_TYPES[key]).value

SchemaKeys == {"full_name", "dob", "phone", "allergies"}

MaxSchemaFields == 2

\* the key orders of resolved schemas: distinct keys, in any order
KeyOrders ==
    {s \in UNION {[1..m -> SchemaKeys] : m \in 1..MaxSchemaFields} :
        \A i, j \in DOMAIN s : i # j => s[i] # s[j]}

Doc1 == <<"d","1">>

Doc2 == <<"d","2">>

Doc3 == <<"d","3">>

GhostDoc == <<"z","z">>

\* layout.json: one document with every label, one with a name that does not
\* survive normalization and a date without a label, one without pages
Layout ==
    << [doc_id |-> Doc1, pages |-> << [page |-> 1, full_text |-> <<"N","a","m","e",":"," ","A","n","n"," ","L","e","e","\n","D","O","B",":"," ","0","1","/","0","2","/","1","9","9","0","\n","P","h","o","n","e",":"," ","5","5","5","-","1","2","3","-","4","5","6","7","\n","A","l","l","e","r","g","i","e","s",":"," ","n","u","t","s",","," ","e","g","g","s">>] >>],
       [doc_id |-> Doc2, pages |-> << [page |-> 1, full_text |-> <<"N","a","m","e",":"," ","a"," ",","," ","b","\n","0","3","/","0","4","/","1","9","8","5">>] >>],
       [doc_id |-> Doc3, pages |-> << >>] >>

\* what routing.json may hold for one field: no entry, or an entry with
\* these doc_ids
RouteChoices ==
    { [entry |-> FALSE, doc_ids |-> << >>],
      [entry |-> TRUE, doc_ids |-> << >>],
      [entry |-> TRUE, doc_ids |-> << GhostDoc >>],
      [entry |-> TRUE, doc_ids |-> << Doc1 >>],
      [entry |-> TRUE, doc_ids |-> << Doc3 >>],
      [entry |-> TRUE, doc_ids |-> << Doc2, GhostDoc, Doc1 >>] }

RoutingEntry(field, doc_ids) == [field |-> field, doc_ids |-> doc_ids]

\* routing.json built from one choice per field
RECURSIVE RoutingOf(_, _, _)
RoutingOf(fields, choice, i) ==
    IF i > Len(fields) THEN << >>
    ELSE (IF choice[i].entry
          THEN << RoutingEntry(fields[i].key, choice[i].doc_ids) >> ELSE << >>)
         \o RoutingOf(fields, choice, i + 1)

\* what one external call can produce: the call raises, or it returns a
\* text that json.loads rejects or decodes to data
Response(raises, decodes, data) == [raises |-> raises, decodes |-> decodes, data |-> data]

Responses ==
    << Response("", FALSE, JNull),
       Response("", TRUE, JDict(<< >>)),
       Response("", TRUE, JList(<< >>)),
       Response("", TRUE, JList(<<
           JDict([raw_value |-> JStr(<<"B","o","b">>), evidence |-> JList(<< JDict([doc_id |-> JStr(<<"d","1">>), page |-> JNum(1), quoted_text |-> JStr(<<"N","a","m","e",":"," ","A","n","n"," ","L","e","e">>)]) >>)]),
           JDict([raw_value |-> JStr(<<"A","n","n"," ","L","e","e">>), evidence |-> JList(<< JDict([doc_id |-> JStr(<<"d","1">>), page |-> JStr(<<"1">>), quoted_text |-> JStr(<<"N","a","m","e",":"," ","A","n","n"," ","L","e","e">>)]) >>)]),
           JDict([raw_value |-> JStr(<<"A","N","N"," ","L","E","E">>), evidence |-> JList(<< JDict([doc_id |-> JStr(<<"d","1">>), page |-> JNum(1), quoted_text |-> JStr(<<"A","n","n"," ","L","e","e">>)]) >>)]),
           JDict([raw_value |-> JStr(<<"x">>)]),
           JDict([raw_value |-> JStr(<<"A","n","n"," ","L","e","e">>), evidence |-> JList(<<
               JDict([doc_id |-> JStr(<<" "," ">>), page |-> JNum(1), quoted_text |-> JStr(<<"A","n","n"," ","L","e","e">>)]),
               JDict([doc_id |-> JStr(<<"d","1">>), page |-> JNum(0 - 1), quoted_text |-> JStr(<<"A","n","n"," ","L","e","e">>)]),
               JDict([doc_id |-> JStr(<<"d","1">>), page |-> JStr(<<"o","n","e">>), quoted_text |-> JStr(<<"A","n","n"," ","L","e","e">>)]),
               JDict([doc_id |-> JStr(<<"d","1">>), page |-> JNum(1), quoted_text |-> JStr(<<" ">>)]),
               JStr(<<"j","u","n","k">>) >>)]),
           JDict([raw_value |-> JStr(<<"0","1","/","0","2","/","1","9","9","0">>), normalized_value |-> JStr(<<"1","9","9","0","-","0","1","-","0","2">>),
                  evidence |-> JList(<< JDict([doc_id |-> JStr(<<"d","1">>), page |-> JNum(1), quoted_text |-> JStr(<<"D","O","B",":"," ","0","1","/","0","2","/","1","9","9","0">>)]) >>)]) >>)),
       Response("", TRUE, JList(<<
           JDict([raw_value |-> JNum(123), evidence |-> JList(<< JDict([doc_id |-> JStr(<<"d","1">>), page |-> JNum(1), quoted_text |-> JStr(<<"N","a","m","e",":"," ","A","n","n"," ","L","e","e">>)]) >>)]) >>)),
       Response("RuntimeError", FALSE, JNull),
       Response("", TRUE, JList(<<
           JDict([raw_value |-> JStr(<<"5","5","5","-","1","2","3","-","4","5","6","7">>), normalized_value |-> JStr(<<"5","5","5","-","1","2","3","-","4","5","6","7">>),
                  evidence |-> JList(<< JDict([doc_id |-> JStr(<<"d","1">>), page |-> JNum(1), quoted_text |-> JStr(<<"P","h","o","n","e",":"," ","5","5","5","-","1","2","3","-","4","5","6","7">>)]) >>)]),
           JDict([raw_value |-> JStr(<<"?">>), evidence |-> JList(<< JDict([doc_id |-> JStr(<<"d","1">>), page |-> JNum(1), quoted_text |-> JStr(<<"P","h","o","n","e",":"," ","5","5","5","-","1","2","3","-","4","5","6","7">>)]) >>)]) >>)) >>

(***************************************************************************)
(* The run: extract_candidates_for_run with ApiLLMClient as its client.    *)
(***************************************************************************)
VARIABLES
    schema,            \* schema.json: resolved_fields
    routing,           \* routing.json
    max_fields,        \* run_options.max_fields
    pc,                \* where the run is
    fi,                \* index of the field the loop is at
    all_candidates,    \* candidates collected so far
    field_stats,       \* per-field statistics
    field_candidates,  \* candidates of the field being processed
    trace,             \* the events appended to the trace log
    candidates_json,   \* the artifact candidates.json
    result,            \* the list the run returned
    raised,            \* the exception the run raised, "" if none
    invocations,       \* history: the calls of llm_client.extract_candidates
    produced,          \* history: candidates as the two extraction passes made them
    run,               \* 1: first execution; 2: repeated with the same responses;
                       \* 3: repeated with any responses
    canned,            \* response queue of the repeated execution
    first_result,      \* what the first execution returned
    call               \* a direct call of one function: its name, arguments, result

vars == << schema, routing, max_fields, pc, fi, all_candidates, field_stats,
           field_candidates, trace, candidates_json, result, raised,
           invocations, produced, run, canned, first_result, call >>

\* schema.resolved_fields[:run_options.max_fields]
fields_to_process == SubSeq(schema, 1, Min(Max(max_fields, 0), Len(schema)))

\* the run directory holds schema.json, layout.json and routing.json; routing
\* entries exist only for fields the run will reach
Init ==
    /\ \E order \in KeyOrders, mf \in 1..MaxSchemaFields :
          \E choice \in [1..Min(mf, Len(order)) -> RouteChoices] :
             /\ schema = [i \in DOMAIN order |-> _make_field_spec(order[i])]
             /\ max_fields = mf
             /\ routing = RoutingOf(fields_to_process, choice, 1)
    /\ pc = "idle"
    /\ fi = 0
    /\ all_candidates = << >>
    /\ field_stats = << >>
    /\ field_candidates = << >>
    /\ trace = << >>
    /\ candidates_json = [written |-> FALSE, data |-> << >>]
    /\ result = << >>
    /\ raised = ""
    /\ invocations = << >>
    /\ produced = << >>
    /\ run = 1
    /\ canned = << >>
    /\ first_result = << >>
    /\ call = [fn |-> ""]

\* mutation: the candidates of an earlier execution are kept
Start_KeepCandidates ==
    /\ pc = "idle"
    /\ pc' = "fields"
    /\ fi' = 1
    /\ field_stats' = << >>
    /\ field_candidates' = << >>
    /\ produced' = << >>
    /\ UNCHANGED << call, schema, routing, max_fields, all_candidates, trace,
                    candidates_json, result, raised, invocations, run, canned,
                    first_result >>

\* entry of extract_candidates_for_run, up to the field loop
Start ==
    /\ pc = "idle"
    /\ pc' = "fields"
    /\ fi' = 1
    /\ all_candidates' = << >>
    /\ field_stats' = << >>
    /\ field_candidates' = << >>
    /\ produced' = << >>
    /\ UNCHANGED << call, schema, routing, max_fields, trace, candidates_json, result,
                    raised, invocations, run, canned, first_result >>

\* mutation: rejected candidates are not collected
CompleteField_DropRejected(field, heuristic_count, llm_used, candidates, events) ==
    /\ field_stats' = (field.key :> FieldStats(heuristic_count, llm_used, candidates))
                      @@ field_stats
    /\ all_candidates' = all_candidates \o SelectSeq(candidates, is_accepted)
    /\ trace' = trace \o events
    /\ field_candidates' = << >>
    /\ fi' = fi + 1
    /\ pc' = "fields"

\* mutation: the events of the field are not appended to the trace
CompleteField_Unlogged(field, heuristic_count, llm_used, candidates, events) ==
    /\ field_stats' = (field.key :> FieldStats(heuristic_count, llm_used, candidates))
                      @@ field_stats
    /\ all_candidates' = all_candidates \o candidates
    /\ trace' = trace
    /\ field_candidates' = << >>
    /\ fi' = fi + 1
    /\ pc' = "fields"

\* the end of one loop iteration: statistics, all_candidates.extend
CompleteField(field, heuristic_count, llm_used, candidates, events) ==
    /\ field_stats' = (field.key :> FieldStats(heuristic_count, llm_used, candidates))
                      @@ field_stats
    /\ all_candidates' = all_candidates \o candidates
    /\ trace' = trace \o events
    /\ field_candidates' = << >>
    /\ fi' = fi + 1
    /\ pc' = "fields"

\* a field without routed documents
SkipField ==
    /\ pc = "fields"
    /\ fi <= Len(fields_to_process)
    /\ _get_routed_docs(fields_to_process[fi].key, routing, Layout) = << >>
    /\ field_stats' = (fields_to_process[fi].key :> FieldStats(0, FALSE, << >>))
                      @@ field_stats
    /\ fi' = fi + 1
    /\ UNCHANGED << call, schema, routing, max_fields, pc, all_candidates,
                    field_candidates, trace, candidates_json, result, raised,
                    invocations, produced, run, canned, first_result >>

Invocation(field, responses, outcome, candidates) ==
    [field |-> field, responses |-> responses, outcome |-> outcome,
     candidates |-> candidates]

\* the except clause of the run: the error event, then re-raise
Abort(kind) ==
    /\ trace' = Append(trace, TraceEvent(<< "extract_candidates" >>, "error", kind))
    /\ pc' = "raised"
    /\ raised' = kind
    /\ UNCHANGED << fi, all_candidates, field_stats, field_candidates >>

\* an artifact cannot be read or does not validate: read_json or
\* model_validate raises inside the try of the run
LoadFails ==
    /\ pc = "idle"
    /\ \E kind \in {"FileNotFoundError", "ValidationError"} : Abort(kind)
    /\ UNCHANGED << call, schema, routing, max_fields, candidates_json, result,
                    invocations, produced, run, canned, first_result >>

\* mutation: the client is called before the heuristic pass has been
\* checked and logged
Decide_CallFirst(field, heuristic_candidates, checked, excerpts) ==
    LET heuristic_event == TraceEvent(<< "field", field.key, "heuristic" >>, "ok", "")
        llm_event       == TraceEvent(<< "field", field.key, "llm" >>, "ok", "")
    IN /\ produced' = produced \o heuristic_candidates
       /\ IF ~should_call_llm(SelectSeq(checked, is_accepted))
          THEN /\ CompleteField(field, Len(heuristic_candidates), FALSE, checked,
                                << heuristic_event >>)
               /\ UNCHANGED invocations
          ELSE IF ~ShouldInvoke(excerpts)
          THEN /\ CompleteField(field, Len(heuristic_candidates), TRUE, checked,
                                << heuristic_event, llm_event >>)
               /\ UNCHANGED invocations
          ELSE IF excerpts = << >>
          THEN \* the client returns [] for empty excerpts without a call
               /\ CompleteField(field, Len(heuristic_candidates), TRUE, checked,
                                << heuristic_event, llm_event >>)
               /\ invocations' = Append(invocations,
                                     Invocation(field.key, << >>, "returned", << >>))
          ELSE /\ invocations' = Append(invocations,
                                     Invocation(field.key, << >>, "pending", << >>))
               /\ field_candidates' = << >>
               /\ pc' = "first_attempt"
               /\ UNCHANGED << fi, all_candidates, field_stats, trace >>

\* from the escalation decision to the end of the iteration, or to the first
\* external call of the client; checked are the heuristic candidates after
\* the evidence check
Decide(field, heuristic_candidates, checked, excerpts) ==
    LET heuristic_event == TraceEvent(<< "field", field.key, "heuristic" >>, "ok", "")
        llm_event       == TraceEvent(<< "field", field.key, "llm" >>, "ok", "")
    IN /\ produced' = produced \o heuristic_candidates
       /\ IF ~should_call_llm(SelectSeq(checked, is_accepted))
          THEN /\ CompleteField(field, Len(heuristic_candidates), FALSE, checked,
                                << heuristic_event >>)
               /\ UNCHANGED invocations
          ELSE IF ~ShouldInvoke(excerpts)
          THEN /\ CompleteField(field, Len(heuristic_candidates), TRUE, checked,
                                << heuristic_event, llm_event >>)
               /\ UNCHANGED invocations
          ELSE IF excerpts = << >>
          THEN \* the client returns [] for empty excerpts without a call
               /\ CompleteField(field, Len(heuristic_candidates), TRUE, checked,
                                << heuristic_event, llm_event >>)
               /\ invocations' = Append(invocations,
                                     Invocation(field.key, << >>, "returned", << >>))
          ELSE /\ invocations' = Append(invocations,
                                     Invocation(field.key, << >>, "pending", << >>))
               /\ field_candidates' = checked
               /\ trace' = Append(trace, heuristic_event)
               /\ pc' = "first_attempt"
               /\ UNCHANGED << fi, all_candidates, field_stats >>

\* heuristic pass and evidence check over the routed documents
HeuristicStep(field, routed_docs, heuristic_candidates) ==
    Decide(field, heuristic_candidates,
           ApplyEvidenceCheck(field, heuristic_candidates),
           build_excerpts_for_field(field, routed_docs, DEFAULT_MAX_TOTAL_CHARS,
               DEFAULT_MAX_CHARS_PER_DOC, DEFAULT_MAX_PAGES_PER_DOC))

\* one loop iteration for a field with routed documents; the field is
\* finished here unless the client has an external call to make
HeuristicPass ==
    /\ pc = "fields"
    /\ fi <= Len(fields_to_process)
    /\ _get_routed_docs(fields_to_process[fi].key, routing, Layout) # << >>
    /\ HeuristicStep(fields_to_process[fi],
           _get_routed_docs(fields_to_process[fi].key, routing, Layout),
           heuristic_candidates_for_field(fields_to_process[fi],
               _get_routed_docs(fields_to_process[fi].key, routing, Layout)))
    /\ UNCHANGED << call, schema, routing, max_fields, candidates_json, result, raised,
                    run, canned, first_result >>

\* mutation: a field whose generator pass failed keeps no candidates
AfterCall_DropOnError(n, k, field, parsed) ==
    LET kind     == IF Responses[k].raises # "" THEN Responses[k].raises
                    ELSE IF parsed.status = "ValueError" THEN AfterValueError(n)
                    ELSE parsed.status
        last     == invocations[Len(invocations)]
        llm_step == << "field", field.key, "llm" >>
    IN /\ run # 2 \/ (canned # << >> /\ k = Head(canned))
       /\ canned' = IF run = 2 THEN Tail(canned) ELSE canned
       /\ invocations' = [invocations EXCEPT ![Len(invocations)] =
              Invocation(last.field, Append(last.responses, k),
                         IF kind = "ok" THEN "returned"
                         ELSE IF kind = "retry" THEN "pending" ELSE kind,
                         IF kind = "ok" THEN parsed.candidates ELSE << >>)]
       /\ IF kind = "retry"
          THEN /\ pc' = "retry"
               /\ UNCHANGED << fi, all_candidates, field_stats, field_candidates,
                               trace, raised, produced >>
          ELSE IF kind = "ok"
          THEN /\ CompleteField(field, Len(field_candidates), TRUE,
                      field_candidates \o ApplyEvidenceCheck(field, parsed.candidates),
                      << TraceEvent(llm_step, "ok", "") >>)
               /\ produced' = produced \o parsed.candidates
               /\ UNCHANGED raised
          ELSE IF IsFieldLevelError(kind)
          THEN /\ CompleteField(field, Len(field_candidates), TRUE, << >>,
                      << TraceEvent(llm_step, "error", kind) >>)
               /\ UNCHANGED << raised, produced >>
          ELSE /\ Abort(kind)
               /\ UNCHANGED produced
       /\ UNCHANGED << call, schema, routing, max_fields, candidates_json, result, run,
                       first_result >>

\* what attempt number n leads to, up to the next external call; k is the
\* response of the external call and parsed what _parse_llm_response made of it
AfterCall(n, k, field, parsed) ==
    LET kind     == IF Responses[k].raises # "" THEN Responses[k].raises
                    ELSE IF parsed.status = "ValueError" THEN AfterValueError(n)
                    ELSE parsed.status
        last     == invocations[Len(invocations)]
        llm_step == << "field", field.key, "llm" >>
    IN /\ run # 2 \/ (canned # << >> /\ k = Head(canned))
       /\ canned' = IF run = 2 THEN Tail(canned) ELSE canned
       /\ invocations' = [invocations EXCEPT ![Len(invocations)] =
              Invocation(last.field, Append(last.responses, k),
                         IF kind = "ok" THEN "returned"
                         ELSE IF kind = "retry" THEN "pending" ELSE kind,
                         IF kind = "ok" THEN parsed.candidates ELSE << >>)]
       /\ IF kind = "retry"
          THEN /\ pc' = "retry"
               /\ UNCHANGED << fi, all_candidates, field_stats, field_candidates,
                               trace, raised, produced >>
          ELSE IF kind = "ok"
          THEN /\ CompleteField(field, Len(field_candidates), TRUE,
                      field_candidates \o ApplyEvidenceCheck(field, parsed.candidates),
                      << TraceEvent(llm_step, "ok", "") >>)
               /\ produced' = produced \o parsed.candidates
               /\ UNCHANGED raised
          ELSE IF IsFieldLevelError(kind)
          THEN /\ CompleteField(field, Len(field_candidates), TRUE, field_candidates,
                      << TraceEvent(llm_step, "error", kind) >>)
               /\ UNCHANGED << raised, produced >>
          ELSE /\ Abort(kind)
               /\ UNCHANGED produced
       /\ UNCHANGED << call, schema, routing, max_fields, candidates_json, result, run,
                       first_result >>

\* mutation: the client does not look at the excerpts
extract_candidates_NoShortCircuit(field, excerpts, k1, k2) ==
    LET \* how attempt n ends, given the response and what the parser made of it
        End(n, response, parsed) ==
            IF response.raises # ""
            THEN [outcome |-> response.raises, candidates |-> << >>]
            ELSE IF parsed.status = "ok"
            THEN [outcome |-> "returned", candidates |-> parsed.candidates]
            ELSE IF parsed.status = "ValueError"
            THEN [outcome |-> AfterValueError(n), candidates |-> << >>]
            ELSE [outcome |-> parsed.status, candidates |-> << >>]
        Attempts(response) ==
            [n \in 1..2 |-> End(n, response[n], _parse_llm_response(field, response[n]))]
        Result(attempt) ==
            IF attempt[1].outcome # "retry" THEN attempt[1] @@ [calls |-> 1]
            ELSE attempt[2] @@ [calls |-> 2]
    IN Result(Attempts(<< Responses[k1], Responses[k2] >>))

\* ApiLLMClient.extract_candidates as a whole: k1 and k2 are the responses
\* the first and the second external call would get; the result is how the
\* call ends, what it returns and how many external calls it made
extract_candidates(field, excerpts, k1, k2) ==
    LET \* how attempt n ends, given the response and what the parser made of it
        End(n, response, parsed) ==
            IF response.raises # ""
            THEN [outcome |-> response.raises, candidates |-> << >>]
            ELSE IF parsed.status = "ok"
            THEN [outcome |-> "returned", candidates |-> parsed.candidates]
            ELSE IF parsed.status = "ValueError"
            THEN [outcome |-> AfterValueError(n), candidates |-> << >>]
            ELSE [outcome |-> parsed.status, candidates |-> << >>]
        Attempts(response) ==
            [n \in 1..2 |-> End(n, response[n], _parse_llm_response(field, response[n]))]
        Result(attempt) ==
            IF attempt[1].outcome # "retry" THEN attempt[1] @@ [calls |-> 1]
            ELSE attempt[2] @@ [calls |-> 2]
    IN IF excerpts = << >>
       THEN [outcome |-> "returned", candidates |-> << >>, calls |-> 0]
       ELSE Result(Attempts(<< Responses[k1], Responses[k2] >>))

\* the first attempt of the client: one external call and its parse
FirstAttempt ==
    /\ pc = "first_attempt"
    /\ \E k \in DOMAIN Responses :
          AfterCall(1, k, fields_to_process[fi],
                    _parse_llm_response(fields_to_process[fi], Responses[k]))

\* the retry of the client: one more external call and its parse
RetryAttempt ==
    /\ pc = "retry"
    /\ \E k \in DOMAIN Responses :
          AfterCall(2, k, fields_to_process[fi],
                    _parse_llm_response(fields_to_process[fi], Responses[k]))

\* mutation: the run returns without writing candidates.json
Finish_NoWrite ==
    /\ pc = "fields"
    /\ fi > Len(fields_to_process)
    /\ all_candidates' = _sort_candidates(all_candidates)
    /\ trace' = Append(trace, TraceEvent(<< "extract_candidates" >>, "ok", ""))
    /\ result' = all_candidates'
    /\ pc' = "done"
    /\ UNCHANGED << call, schema, routing, max_fields, fi, field_stats,
                    field_candidates, candidates_json, raised, invocations,
                    produced, run, canned, first_result >>

\* after the loop: sort, write candidates.json, log, return
Finish ==
    /\ pc = "fields"
    /\ fi > Len(fields_to_process)
    /\ all_candidates' = _sort_candidates(all_candidates)
    /\ candidates_json' = [written |-> TRUE, data |-> all_candidates']
    /\ trace' = Append(trace, TraceEvent(<< "extract_candidates" >>, "ok", ""))
    /\ result' = all_candidates'
    /\ pc' = "done"
    /\ UNCHANGED << call, schema, routing, max_fields, fi, field_stats, field_candidates,
                    raised, invocations, produced, run, canned, first_result >>

Next ==
    Start \/ LoadFails \/ SkipField \/ HeuristicPass \/ FirstAttempt \/ RetryAttempt
    \/ Finish

Spec == Init /\ [][Next]_vars

\* a second execution on the same run directory (same run_id); its external
\* calls are answered by the responses the first execution received, in the
\* same order (run 2), or by any responses (run 3)
RECURSIVE ResponsesOf(_)
ResponsesOf(invs) ==
    IF invs = << >> THEN << >> ELSE Head(invs).responses \o ResponsesOf(Tail(invs))

Rerun ==
    /\ pc = "done"
    /\ run = 1
    /\ \E r \in {2, 3} :
          /\ run' = r
          /\ canned' = IF r = 2 THEN ResponsesOf(invocations) ELSE << >>
    /\ first_result' = result
    /\ invocations' = << >>
    /\ pc' = "idle"
    /\ UNCHANGED << call, schema, routing, max_fields, fi, all_candidates, field_stats,
                    field_candidates, trace, candidates_json, result, raised,
                    produced >>

\* the inputs of the repeated execution: schemas over two of the keys
InitReplay == Init /\ \A i \in DOMAIN schema : schema[i].key \in {"full_name", "dob"}

NextReplay == Next \/ Rerun

SpecReplay == InitReplay /\ [][NextReplay]_vars

(***************************************************************************)
(* Direct calls: one function of the program is called once with arguments *)
(* drawn from bounded sets, as the unit tests call it, and returns.        *)
(***************************************************************************)
\* the longest text handed to normalize_text
MaxTextLen == 5

\* the longest routed document list and the largest small budget of a direct
\* call of build_excerpts_for_field
MaxRoutedDocs == 2

MaxBudget == 4

InitCalls ==
    LET Call(fn, args) == [fn |-> fn, args |-> args, out |-> << >>]
        TextChars == {"a", "B", " ", ","}
        Texts == UNION {[1..n -> TextChars] : n \in 0..MaxTextLen}
        Fields == {_make_field_spec(key) : key \in SchemaKeys}
        ExcerptLists ==
            {<< >>, << DocExcerpt(Doc1, 1, Layout[1].pages[1].full_text) >>}
        Page(n, text) == [page |-> n, full_text |-> text]
        \* documents with short pages, stored out of page order
        Documents ==
            {[doc_id |-> Doc1, pages |-> << Page(3, <<"d","o","b">>),
                                            Page(1, <<"N","a","m","e">>),
                                            Page(2, <<"a"," ","n","a","m","e">>) >>],
             [doc_id |-> Doc2, pages |-> << Page(1, << >>),
                                            Page(2, <<"d","o","b"," ","x">>) >>]}
        RoutedLists == UNION {[1..n -> Documents] : n \in 0..MaxRoutedDocs}
        \* documents that repeat their values: on a second page, and in
        \* other spellings
        Repeating ==
            {[doc_id |-> Doc1, pages |-> << Page(1, Layout[1].pages[1].full_text),
                                            Page(2, Layout[1].pages[1].full_text) >>],
             [doc_id |-> Doc2, pages |-> << Page(1, <<"D","O","B",":"," ","1","/","2","/","1","9","9","0","\n","D","O","B",":"," ","0","1","/","0","2","/","1","9","9","0","\n","N","a","m","e",":"," ","A","N","N"," ","L","E","E","\n","T","e","l",":"," ","(","5","5","5",")"," ","1","2","3","-","4","5","6","7">>) >>]}
        RepeatingLists == UNION {[1..n -> Repeating] : n \in 0..MaxRoutedDocs}
        \* texts in and around the four formats normalize_date reads, with
        \* one or two digits for month and day and with text after the date
        DateTexts ==
            LET Y == {<<"1","9","9","0">>, <<"0","0","0","7">>}
                N == {<<"1">>, <<"0","1">>, <<"1","2">>, <<"0">>, <<"3","1">>}
                Sep == {<<"-">>, <<"/">>}
                Rest == {<< >>, <<"5">>, <<" ","x">>}
                Month == {<<"J","a","n">>, <<"M","A","Y">>, <<"j","u","n","e">>, <<"F","o","o">>}
                Gap == {<< >>, <<" ">>, <<","," ">>}
            IN {y \o s1 \o m \o s2 \o d \o r :
                   y \in Y, s1 \in Sep, m \in N, s2 \in Sep, d \in N, r \in Rest}
               \cup {m \o s1 \o d \o s2 \o y \o r :
                   y \in Y, s1 \in Sep, m \in N, s2 \in Sep, d \in N, r \in Rest}
               \cup {m \o g1 \o d \o g2 \o y :
                   m \in Month, g1 \in {<< >>, <<" ">>}, d \in N, g2 \in Gap, y \in Y}
               \cup {d \o <<" ">> \o m \o <<" ">> \o y \o r :
                   d \in N, m \in Month, y \in Y, r \in Rest}
        CharBudgets == 0..MaxBudget \cup {DEFAULT_MAX_CHARS_PER_DOC}
        PageBudgets == 0..2 \cup {DEFAULT_MAX_PAGES_PER_DOC}
        \* candidates of either method, with or without an earlier rejection:
        \* values as the normalizers give them, quoted from the first document
        Values == {<<"a","n","n"," ","l","e","e">>,
                   <<"b","o","b">>,
                   <<"1","9","9","0","-","0","1","-","0","2">>,
                   <<"1","5","5","5","1","2","3","4","5","6","7">>,
                   <<"n","u","t","s"," ","e","g","g","s">>}
        Quotes == {Layout[1].pages[1].full_text,
                   <<"N","a","m","e",":"," ","A","n","n"," ","L","e","e">>}
        Candidates(f) ==
            {[Candidate(f.key, v, v, << Evidence(Doc1, 1, q) >>, m, << >>, 1)
                 EXCEPT !.rejected_reasons = rr] :
                v \in Values, q \in Quotes, m \in {"heuristic", "llm"},
                rr \in {<< >>, << "unsupported_by_evidence" >>}}
    IN /\ call \in {Call("normalize_text", [text |-> x]) : x \in Texts}
                 \cup {Call("normalize_date", [text |-> x]) : x \in DateTexts \cup Texts}
                 \cup UNION {{Call("evidence_supports_value", [field |-> f, candidate |-> c]) :
                                 c \in Candidates(f)} : f \in Fields}
                 \cup {Call("_parse_llm_response", [field |-> f, response_text |-> k]) :
                          f \in Fields, k \in DOMAIN Responses}
                 \cup {Call("build_excerpts_for_field",
                          [field |-> f, routed_docs |-> d, max_total_chars |-> mt,
                           max_chars_per_doc |-> mc, max_pages_per_doc |-> mp]) :
                          f \in Fields, d \in RoutedLists, mt \in CharBudgets,
                          mc \in CharBudgets, mp \in PageBudgets}
                 \cup {Call("heuristic_candidates_for_field",
                             [field |-> f, routed_docs |-> d]) :
                          f \in Fields, d \in RepeatingLists}
                 \cup {Call("FieldSpec", [key |-> k, type |-> t]) :
                          k \in DOMAIN FIELD_TYPES \cup {"ssn"},
                          t \in {"string", "date", "phone", "string_or_list", "int"}}
                 \cup {Call("extract_candidates",
                          [field |-> f, excerpts |-> e, first |-> k1, second |-> k2]) :
                          f \in Fields, e \in ExcerptLists,
                          k1 \in DOMAIN Responses, k2 \in DOMAIN Responses}
       /\ pc = "call"
       /\ schema = << >>
       /\ routing = << >>
       /\ max_fields = 0
       /\ fi = 0
       /\ all_candidates = << >>
       /\ field_stats = << >>
       /\ field_candidates = << >>
       /\ trace = << >>
       /\ candidates_json = [written |-> FALSE, data |-> << >>]
       /\ result = << >>
       /\ raised = ""
       /\ invocations = << >>
       /\ produced = << >>
       /\ run = 1
       /\ canned = << >>
       /\ first_result = << >>

\* the called function runs on its arguments and returns
Return ==
    /\ pc = "call"
    /\ pc' = "returned"
    /\ call' = [call EXCEPT !.out =
                   CASE call.fn = "normalize_text" -> normalize_text(call.args.text)
                     [] call.fn = "normalize_date" -> normalize_date(call.args.text)
                     [] call.fn = "_parse_llm_response" ->
                           _parse_llm_response(call.args.field,
                                               Responses[call.args.response_text])
                     [] call.fn = "evidence_supports_value" ->
                           evidence_supports_value(call.args.field, call.args.candidate)
                     [] call.fn = "build_excerpts_for_field" ->
                           build_excerpts_for_field(call.args.field,
                               call.args.routed_docs, call.args.max_total_chars,
                               call.args.max_chars_per_doc, call.args.max_pages_per_doc)
                     [] call.fn = "heuristic_candidates_for_field" ->
                           heuristic_candidates_for_field(call.args.field,
                                                          call.args.routed_docs)
                     [] call.fn = "FieldSpec" ->
                           FieldSpec(call.args.key, << >>, call.args.type)
                     [] call.fn = "extract_candidates" ->
                           extract_candidates(call.args.field, call.args.excerpts,
                                              call.args.first, call.args.second)]
    /\ UNCHANGED << schema, routing, max_fields, fi, all_candidates, field_stats,
                    field_candidates, trace, candidates_json, result, raised,
                    invocations, produced, run, canned, first_result >>

SpecCalls == InitCalls /\ [][Return]_vars

\* the function fn has returned from a direct call
Returned(fn) == pc = "returned" /\ call.fn = fn

(***************************************************************************)
(* Properties.                                                             *)
(***************************************************************************)
\* response k is a text that decodes to a JSON array
Parses(k) ==
    Responses[k].raises = "" /\ Responses[k].decodes /\ Responses[k].data.t = "list"

\* response k is a text that is no JSON, or JSON that is no array
FailsToParse(k) == Responses[k].raises = "" /\ ~Parses(k)

\* routing.json routes to field key a document that layout.json holds
HasRoutedDocs(key) ==
    \E e \in DOMAIN routing :
       /\ routing[e].field = key
       /\ \E d \in DOMAIN routing[e].doc_ids, l \in DOMAIN Layout :
             Layout[l].doc_id = routing[e].doc_ids[d]

\* the FieldSpec of the schema with this key
SchemaField(key) == schema[CHOOSE i \in DOMAIN schema : schema[i].key = key]

InvocationsFor(key) == {i \in DOMAIN invocations : invocations[i].field = key}

\* C1: one invocation of the client makes at most two external calls: one
\* when the first response parses, two when the first response fails to
\* parse, never a third.
C1_AtMostTwoCalls ==
    \A i \in DOMAIN invocations :
       LET inv == invocations[i]
       IN /\ Len(inv.responses) <= 2
          /\ (Len(inv.responses) >= 1 /\ Parses(inv.responses[1]))
                => Len(inv.responses) = 1
          /\ (inv.outcome # "pending" /\ Len(inv.responses) >= 1
                /\ FailsToParse(inv.responses[1]))
                => Len(inv.responses) = 2

C1_Witness ==
    \E i \in DOMAIN invocations :
       /\ invocations[i].outcome = "returned"
       /\ Len(invocations[i].responses) = 2
       /\ FailsToParse(invocations[i].responses[1])
       /\ Parses(invocations[i].responses[2])

\* C2: an invocation with excerpts raises LLMInvalidJSONError iff the first
\* attempt and the retry both fail to parse; if either attempt parses it
\* returns that attempt's candidates and raises nothing.
C2_InvalidIffBothFail ==
    \A i \in DOMAIN invocations :
       LET inv == invocations[i]
           n   == Len(inv.responses)
       IN (inv.outcome # "pending" /\ n >= 1) =>
             /\ inv.outcome = "LLMInvalidJSONError"
                   <=> (n = 2 /\ FailsToParse(inv.responses[1])
                              /\ FailsToParse(inv.responses[2]))
             /\ Parses(inv.responses[n])
                   => /\ inv.outcome = "returned"
                      /\ inv.candidates =
                            _parse_llm_response(SchemaField(inv.field),
                                                Responses[inv.responses[n]]).candidates

\* C3: in the emitted list a candidate has no rejected_reasons iff the
\* verifier rule of its field's type holds for it; one that fails the rule
\* carries "unsupported_by_evidence".
C3_RejectedIffUnsupported ==
    candidates_json.written =>
       \A i \in DOMAIN candidates_json.data :
          LET c == candidates_json.data[i]
              supported == evidence_supports_value(SchemaField(c.field), c)
          IN /\ (c.rejected_reasons = << >>) <=> supported
             /\ ~supported => c.rejected_reasons = << "unsupported_by_evidence" >>

C3_Witness ==
    /\ candidates_json.written
    /\ \E i, j, k \in DOMAIN candidates_json.data :
          /\ candidates_json.data[i].from_method = "heuristic"
          /\ candidates_json.data[i].rejected_reasons # << >>
          /\ candidates_json.data[j].from_method = "llm"
          /\ candidates_json.data[j].rejected_reasons # << >>
          /\ candidates_json.data[k].from_method = "llm"
          /\ candidates_json.data[k].rejected_reasons = << >>

\* C4: when the client raises LLMInvalidJSONError for a field the run does
\* not raise because of it: it records an error-status 'field:<key>:llm'
\* event, goes on to the remaining fields, writes candidates.json and
\* returns.
C4_InvalidJSONIsolated ==
    \A i \in DOMAIN invocations :
       invocations[i].outcome = "LLMInvalidJSONError" =>
          /\ \E t \in DOMAIN trace :
                trace[t] = TraceEvent(<< "field", invocations[i].field, "llm" >>,
                                      "error", "LLMInvalidJSONError")
          /\ invocations[i].field \in DOMAIN field_stats
          /\ raised # "LLMInvalidJSONError"
          /\ pc = "raised" =>
                \E j \in DOMAIN invocations : j > i /\ invocations[j].outcome = raised
          /\ pc = "done" =>
                /\ candidates_json.written
                /\ candidates_json.data = result
                /\ \A f \in DOMAIN fields_to_process :
                      fields_to_process[f].key \in DOMAIN field_stats

C4_Witness ==
    /\ pc = "done"
    /\ Len(invocations) = 2
    /\ invocations[1].outcome = "LLMInvalidJSONError"
    /\ invocations[2].outcome = "returned"
    /\ \E i \in DOMAIN result : result[i].field = invocations[2].field

\* the accepted heuristic candidates of field key among those collected
AcceptedHeuristic(key) ==
    {all_candidates[i] : i \in {j \in DOMAIN all_candidates :
        /\ all_candidates[j].field = key
        /\ all_candidates[j].from_method = "heuristic"
        /\ all_candidates[j].rejected_reasons = << >>}}

\* C5: a processed field with a routed document escalates to the generator
\* iff it has no accepted heuristic candidate or the highest provisional
\* confidence (0.45 x anchor_match) among them is below 0.75; otherwise
\* there is no generator work for it.
C5_EscalationRule ==
    \A key \in DOMAIN field_stats :
       HasRoutedDocs(key) =>
          /\ field_stats[key].llm_used
                <=> \/ AcceptedHeuristic(key) = {}
                    \/ \A c \in AcceptedHeuristic(key) :
                          45 * c.scores.anchor_match < 75
          /\ ~field_stats[key].llm_used =>
                /\ InvocationsFor(key) = {}
                /\ \A t \in DOMAIN trace : trace[t].step # << "field", key, "llm" >>

C5_Witness ==
    \E key \in DOMAIN field_stats :
       /\ HasRoutedDocs(key)
       /\ field_stats[key].llm_used
       /\ \E c \in AcceptedHeuristic(key) : c.scores.anchor_match = 1

\* C6: for every processed field with routed documents for which escalation
\* is decided, the client's extract_candidates is invoked exactly once.
C6_InvokedExactlyOnce ==
    \A key \in DOMAIN field_stats :
       (HasRoutedDocs(key) /\ field_stats[key].llm_used)
          => Cardinality(InvocationsFor(key)) = 1

\* the excerpt builder has something to show for field key
HasExcerpts(key) ==
    build_excerpts_for_field(SchemaField(key),
        _get_routed_docs(key, routing, Layout), DEFAULT_MAX_TOTAL_CHARS,
        DEFAULT_MAX_CHARS_PER_DOC, DEFAULT_MAX_PAGES_PER_DOC) # << >>

\* C6, amended: such a field has exactly one invocation of the client when
\* the excerpt builder yields an excerpt for it, and none when it yields no
\* excerpt.
C6_InvokedOnceIfExcerpts ==
    \A key \in DOMAIN field_stats :
       (HasRoutedDocs(key) /\ field_stats[key].llm_used)
          => Cardinality(InvocationsFor(key)) = IF HasExcerpts(key) THEN 1 ELSE 0

C6_Witness ==
    \E k1, k2 \in DOMAIN field_stats :
       /\ HasRoutedDocs(k1) /\ field_stats[k1].llm_used /\ HasExcerpts(k1)
       /\ HasRoutedDocs(k2) /\ field_stats[k2].llm_used /\ ~HasExcerpts(k2)

\* C7: a field with no routed documents (no routing entry, an entry without
\* doc_ids, or doc_ids that are all absent from the layout) gets no
\* candidate, no call of the generator, and no heuristic or generator trace
\* event.
C7_UnroutedFieldUntouched ==
    \A f \in DOMAIN fields_to_process :
       LET key == fields_to_process[f].key
       IN ~HasRoutedDocs(key) =>
             /\ \A i \in DOMAIN all_candidates : all_candidates[i].field # key
             /\ pc = "done" => \A i \in DOMAIN result : result[i].field # key
             /\ InvocationsFor(key) = {}
             /\ \A t \in DOMAIN trace :
                   trace[t].step \notin {<< "field", key, "heuristic" >>,
                                         << "field", key, "llm" >>}

C7_Witness ==
    /\ pc = "done"
    /\ result # << >>
    /\ \E e \in DOMAIN routing :
          /\ routing[e].doc_ids = << GhostDoc >>
          /\ routing[e].field \in DOMAIN field_stats

\* c as the extraction pass made it, before the evidence check
Unmarked(c) == [c EXCEPT !.rejected_reasons = << >>]

Occurrences(s, c) == Cardinality({i \in DOMAIN s : Unmarked(s[i]) = c})

\* C8: on a successful run the emitted list holds every candidate the
\* heuristic pass and the generator client returned, each as often as it was
\* returned, and nothing else: its length is the sum of their counts.
C8_NothingDiscarded ==
    pc = "done" =>
       /\ Len(result) = Len(produced)
       /\ \A i \in DOMAIN produced :
             Occurrences(result, produced[i]) = Occurrences(produced, produced[i])

C8_Witness ==
    /\ pc = "done"
    /\ \E i, j \in DOMAIN result :
          /\ result[i].from_method = "heuristic" /\ result[i].rejected_reasons # << >>
          /\ result[j].from_method = "llm" /\ result[j].rejected_reasons # << >>
    /\ \E i \in DOMAIN invocations : invocations[i].outcome = "LLMInvalidJSONError"

\* C9: the emitted list is ordered by field ascending, within a field
\* heuristic before llm, within a method by normalized_value non-decreasing,
\* whatever the order of the schema.
C9_SortLaw ==
    pc = "done" =>
       \A i, j \in DOMAIN result :
          i < j =>
             /\ StrLeq(KeyText[result[i].field], KeyText[result[j].field])
             /\ result[i].field = result[j].field =>
                   /\ ~(result[i].from_method = "llm"
                        /\ result[j].from_method = "heuristic")
                   /\ result[i].from_method = result[j].from_method =>
                         StrLeq(result[i].normalized_value, result[j].normalized_value)

C9_Witness ==
    /\ pc = "done"
    /\ Len(schema) = 2
    /\ StrLess(KeyText[schema[2].key], KeyText[schema[1].key])
    /\ \E i, j, k \in DOMAIN result :
          /\ result[i].field = schema[2].key
          /\ result[j].field = schema[1].key /\ result[j].from_method = "heuristic"
          /\ result[k].field = schema[1].key /\ result[k].from_method = "llm"

ErrorRecorded ==
    /\ trace # << >>
    /\ trace[Len(trace)] = TraceEvent(<< "extract_candidates" >>, "error", raised)

\* candidates.json holds the complete sorted list this execution returned
ArtifactOfThisExecution ==
    /\ candidates_json = [written |-> TRUE, data |-> result]
    /\ Len(result) = Len(produced)
    /\ \A i, j \in DOMAIN result : i < j => ~SortKeyLess(result[j], result[i])

\* C11: when an execution has finished, either it returned and candidates.json
\* holds its complete sorted list, or it raised, the error event is recorded
\* and the run has no candidates.json.
C11_ArtifactXorException ==
    /\ pc = "done" => ArtifactOfThisExecution
    /\ pc = "raised" => (ErrorRecorded /\ ~candidates_json.written)

\* C11, amended: an execution that raised has written no candidates.json: the
\* artifact is absent on the first execution of the run_id, and otherwise it
\* still is what the earlier execution wrote.
C11_ArtifactOrPriorState ==
    /\ pc = "done" => ArtifactOfThisExecution
    /\ pc = "raised" =>
          /\ ErrorRecorded
          /\ candidates_json = IF run = 1 THEN [written |-> FALSE, data |-> << >>]
                                ELSE [written |-> TRUE, data |-> first_result]

C11_Witness ==
    /\ run = 1
    /\ pc = "raised"
    /\ all_candidates # << >>
    /\ ~candidates_json.written

\* C12: candidates.json is write-once per run_id: a later execution with the
\* same run_id leaves the artifact as the first execution wrote it.
C12_WriteOnce ==
    run # 1 => candidates_json = [written |-> TRUE, data |-> first_result]

\* C13: normalize_text is idempotent: applied to its own result it returns
\* that result, for every text, "a , b" included.
C13_Idempotent ==
    Returned("normalize_text") => normalize_text(call.out) = call.out

\* C14: a response that is a JSON array never fails to parse: the items that
\* fail the shape check are dropped, the others are returned, no exception
\* escapes and there is no retry.
C14_ArrayNeverFails ==
    (Returned("_parse_llm_response") /\ Parses(call.args.response_text))
       => call.out.status = "ok"

\* the candidates a returned direct call of the parser or the client gave
ReturnedCandidates ==
    IF Returned("_parse_llm_response") \/ Returned("extract_candidates")
    THEN call.out.candidates ELSE << >>

\* C15: the generator client applies no evidence check: every candidate that
\* _parse_llm_response or extract_candidates returns has from_method "llm",
\* the requested field key and no rejected_reasons, supported or not.
C15_ClientDoesNotVerify ==
    \A i \in DOMAIN ReturnedCandidates :
       /\ ReturnedCandidates[i].from_method = "llm"
       /\ ReturnedCandidates[i].field = call.args.field.key
       /\ ReturnedCandidates[i].rejected_reasons = << >>

C15_Witness ==
    /\ Returned("extract_candidates")
    /\ \E i \in DOMAIN ReturnedCandidates :
          /\ ~evidence_supports_value(call.args.field, ReturnedCandidates[i])
          /\ ReturnedCandidates[i].rejected_reasons = << >>

\* C16: extract_candidates called with no excerpts returns no candidates and
\* makes no external call, for every field.
C16_EmptyExcerptsNoCall ==
    (Returned("extract_candidates") /\ call.args.excerpts = << >>)
       => call.out = [outcome |-> "returned", candidates |-> << >>, calls |-> 0]

C16_Witness ==
    /\ Returned("extract_candidates")
    /\ call.args.excerpts = << >>
    /\ Responses[call.args.first].raises # ""
    /\ call.out.calls = 0

\* the candidates that differ from c only in what the verifier must not read
SameForVerifier(c) ==
    {[c EXCEPT !.from_method = m, !.raw_value = rv, !.validators = v,
               !.scores = CandidateScores(a), !.rejected_reasons = rr] :
        m \in {"heuristic", "llm"}, rv \in {c.raw_value, << "x" >>},
        v \in {<< >>, << "default_country_assumed" >>}, a \in {0, 1},
        rr \in {<< >>, << "unsupported_by_evidence" >>}}

\* C17: the verdict of evidence_supports_value depends only on the field
\* type, the normalized_value and the evidence: a candidate that differs only
\* in from_method, raw_value, validators, scores or rejected_reasons gets the
\* same verdict under the same FieldSpec.
C17_VerdictIgnoresMethod ==
    Returned("evidence_supports_value") =>
       \A c \in SameForVerifier(call.args.candidate) :
          evidence_supports_value(call.args.field, c) = call.out

C17_Witness ==
    /\ Returned("evidence_supports_value")
    /\ call.args.candidate.from_method = "heuristic"
    /\ call.out = FALSE
    /\ \E c \in SameForVerifier(call.args.candidate) :
          c.from_method = "llm" /\ ~evidence_supports_value(call.args.field, c)

\* the sum of the text lengths of a list of excerpts
RECURSIVE TotalChars(_)
TotalChars(excerpts) ==
    IF excerpts = << >> THEN 0
    ELSE Len(Head(excerpts).text) + TotalChars(Tail(excerpts))

\* what a direct call build_excerpts_for_field(field, routed_docs,
\* max_total_chars, max_chars_per_doc, max_pages_per_doc) must return: the
\* caps, no empty text, prefixes of the page texts, routed order. The caps
\* of one doc_id are counted once (perEntry = FALSE) or once for each entry
\* of the routed list that has this doc_id (perEntry = TRUE).
ExcerptsCapped(routed_docs, max_total_chars, max_chars_per_doc, max_pages_per_doc, excerpts, perEntry) ==
    LET From(id) == SelectSeq(excerpts, LAMBDA e : e.doc_id = id)
        Entries(id) ==
            IF perEntry
            THEN Cardinality({d \in DOMAIN routed_docs : routed_docs[d].doc_id = id})
            ELSE 1
    IN /\ TotalChars(excerpts) <= max_total_chars
       /\ \A i \in DOMAIN excerpts :
             /\ TotalChars(From(excerpts[i].doc_id))
                   <= max_chars_per_doc * Entries(excerpts[i].doc_id)
             /\ Len(From(excerpts[i].doc_id))
                   <= max_pages_per_doc * Entries(excerpts[i].doc_id)
             /\ excerpts[i].text # << >>
       /\ \E at \in [DOMAIN excerpts -> DOMAIN routed_docs] :
             /\ \A i \in DOMAIN excerpts :
                   /\ routed_docs[at[i]].doc_id = excerpts[i].doc_id
                   /\ \E p \in DOMAIN routed_docs[at[i]].pages :
                         LET page == routed_docs[at[i]].pages[p]
                         IN /\ page.page = excerpts[i].page
                            /\ excerpts[i].text =
                                  SubSeq(page.full_text, 1, Len(excerpts[i].text))
             /\ \A i, j \in DOMAIN excerpts :
                   i < j => \/ at[i] < at[j]
                            \/ at[i] = at[j] /\ excerpts[i].page < excerpts[j].page

HasSoundEvidence(c) ==
    /\ c.evidence # << >>
    /\ \A e \in DOMAIN c.evidence :
          /\ StrStrip(c.evidence[e].doc_id) # << >>
          /\ StrStrip(c.evidence[e].quoted_text) # << >>
          /\ c.evidence[e].page >= 1

\* C19: every candidate of the emitted list, of either method, accepted or
\* rejected, has a non-empty evidence list whose items have a doc_id and a
\* quoted_text that are neither empty nor whitespace only, and a page >= 1.
C19_EmittedEvidenceSound ==
    /\ \A i \in DOMAIN result : HasSoundEvidence(result[i])
    /\ \A i \in DOMAIN candidates_json.data :
          HasSoundEvidence(candidates_json.data[i])

C19_Witness ==
    /\ pc = "done"
    /\ candidates_json.written
    /\ candidates_json.data = result
    /\ \E i, j \in DOMAIN result :
          /\ result[i].from_method = "heuristic" /\ is_accepted(result[i])
          /\ result[j].from_method = "llm" /\ ~is_accepted(result[j])
    /\ \E k \in DOMAIN invocations : 4 \in {invocations[k].responses[n] :
                                              n \in DOMAIN invocations[k].responses}

\* C20: every FieldSpec that exists has the type that the key-to-type table
\* gives for its key: a FieldSpec whose type disagrees with its key cannot
\* be constructed.
C20_TypeFollowsKey ==
    (Returned("FieldSpec") /\ call.out.raised = "")
       => call.out.value.type = FIELD_TYPES[call.out.value.key]

\* the events of the trace that belong to a field
FieldEvents == SelectSeq(trace, LAMBDA e : e.step[1] = "field")

\* the place of a key among the fields to process, 0 if it is not among them
Place(key) ==
    IF \E i \in DOMAIN fields_to_process : fields_to_process[i].key = key
    THEN CHOOSE i \in DOMAIN fields_to_process : fields_to_process[i].key = key
    ELSE 0

\* C21: passes run only for the first max_fields fields of the schema, one
\* field at a time in schema order: every step (trace event, client call) is
\* of a field among them, no step of a later field precedes a step of an
\* earlier one, nothing of the fields still to come has happened, and while
\* the client is being called the checked heuristic candidates of the field
\* are in place and its heuristic event is the last event of the trace.
C21_OneFieldAtATime ==
    /\ \A i \in DOMAIN FieldEvents :
          /\ Place(FieldEvents[i].step[2]) \in 1..fi
          /\ pc = "fields" => Place(FieldEvents[i].step[2]) < fi
    /\ \A i, j \in DOMAIN FieldEvents :
          i < j => \/ Place(FieldEvents[i].step[2]) < Place(FieldEvents[j].step[2])
                   \/ /\ FieldEvents[i].step[2] = FieldEvents[j].step[2]
                      /\ FieldEvents[i].step[3] = "heuristic"
                      /\ FieldEvents[j].step[3] = "llm"
    /\ \A i \in DOMAIN invocations :
          /\ Place(invocations[i].field) \in 1..fi
          /\ \E e \in DOMAIN trace :
                trace[e].step = << "field", invocations[i].field, "heuristic" >>
          /\ \A j \in DOMAIN invocations :
                i < j => Place(invocations[i].field) < Place(invocations[j].field)
    /\ \A key \in DOMAIN field_stats :
          Place(key) \in 1..fi /\ (pc = "fields" => Place(key) < fi)
    /\ pc \in {"first_attempt", "retry"} =>
          /\ invocations # << >>
          /\ invocations[Len(invocations)].field = fields_to_process[fi].key
          /\ trace[Len(trace)].step = << "field", fields_to_process[fi].key, "heuristic" >>
          /\ field_candidates =
                ApplyEvidenceCheck(fields_to_process[fi],
                    heuristic_candidates_for_field(fields_to_process[fi],
                        _get_routed_docs(fields_to_process[fi].key, routing, Layout)))

C21_Witness ==
    /\ pc = "done"
    /\ Len(fields_to_process) = 2
    /\ Len(invocations) = 2
    /\ Len(invocations[1].responses) = 2
    /\ Len(FieldEvents) = 4

\* how many events of the trace have this step
EventCount(step) == Len(SelectSeq(trace, LAMBDA e : e.step = step))

\* what C22 asks of the trace of a completed run, but for the llm events
TraceOfCompletedRun ==
    /\ \A f \in DOMAIN fields_to_process :
          EventCount(<< "field", fields_to_process[f].key, "heuristic" >>)
             = IF HasRoutedDocs(fields_to_process[f].key) THEN 1 ELSE 0
    /\ EventCount(<< "extract_candidates" >>) = 1
    /\ trace[Len(trace)].step = << "extract_candidates" >>

\* C22 as stated: on a run that completes the trace has exactly one
\* heuristic event for each processed field with routed documents, an llm
\* event for a field exactly when the client was invoked for it, and exactly
\* one extract_candidates event, which comes last.
C22_LlmEventIffInvoked ==
    pc = "done" =>
       /\ TraceOfCompletedRun
       /\ \A f \in DOMAIN fields_to_process :
             EventCount(<< "field", fields_to_process[f].key, "llm" >>)
                = IF InvocationsFor(fields_to_process[f].key) # {} THEN 1 ELSE 0

\* C22: the same, with an llm event for a field exactly when escalation was
\* decided for it (llm_used), whether or not the excerpt builder gave the
\* client anything to be invoked with.
C22_LlmEventIffEscalated ==
    pc = "done" =>
       /\ TraceOfCompletedRun
       /\ \A f \in DOMAIN fields_to_process :
             EventCount(<< "field", fields_to_process[f].key, "llm" >>)
                = IF field_stats[fields_to_process[f].key].llm_used THEN 1 ELSE 0

C22_Witness ==
    /\ pc = "done"
    /\ \E k1, k2 \in DOMAIN field_stats :
          /\ InvocationsFor(k1) # {}
          /\ EventCount(<< "field", k1, "llm" >>) = 1
          /\ HasRoutedDocs(k2) /\ InvocationsFor(k2) = {}
          /\ EventCount(<< "field", k2, "llm" >>) = 1

\* no two candidates of the list have the same normalized_value
DistinctValues(candidates) ==
    \A i, j \in DOMAIN candidates :
       i # j => candidates[i].normalized_value # candidates[j].normalized_value

\* C23: within one extractor invocation (one field, one document) no two
\* candidates share a normalized_value, however often and on however many
\* pages the value occurs; across documents nothing is deduplicated:
\* heuristic_candidates_for_field returns what each routed document gives by
\* itself, one after the other.
C23_DedupPerDocumentOnly ==
    Returned("heuristic_candidates_for_field") =>
       LET docs == call.args.routed_docs
           Alone(d) == heuristic_candidates_for_field(call.args.field, << docs[d] >>)
           upto[d \in 0..Len(docs)] == IF d = 0 THEN << >> ELSE upto[d - 1] \o Alone(d)
       IN /\ \A d \in DOMAIN docs : DistinctValues(Alone(d))
          /\ call.out = upto[Len(docs)]

C23_Witness ==
    /\ Returned("heuristic_candidates_for_field")
    /\ call.args.field.key = "dob"
    /\ Len(call.args.routed_docs) = 2
    /\ Len(call.args.routed_docs[1].pages) = 2
    /\ Len(call.args.routed_docs[2].pages) = 1
    /\ Len(call.out) = 2
    /\ ~DistinctValues(call.out)

\* normalization added a country code to the candidate: its normalized_value
\* is "1" followed by the 10 digits of its raw_value
CountryCodeAdded(c) ==
    /\ Len(extract_digits(c.raw_value)) = 10
    /\ c.normalized_value = << "1" >> \o extract_digits(c.raw_value)

HasValidator(c, flag) == \E i \in DOMAIN c.validators : c.validators[i] = flag

\* the phone candidates a direct call of an extraction pass returned
ReturnedPhoneCandidates ==
    IF pc # "returned" \/ "field" \notin DOMAIN call.args THEN << >>
    ELSE IF call.args.field.type # "phone" THEN << >>
    ELSE IF call.fn = "heuristic_candidates_for_field" THEN call.out
    ELSE IF call.fn = "_parse_llm_response" THEN call.out.candidates
    ELSE << >>

\* C24: for every phone candidate, of the heuristic extractor and of the
\* generator client alike, validators contains "default_country_assumed"
\* if and only if normalization added a country code to that candidate.
C24_FlagIffCountryCodeAdded ==
    \A i \in DOMAIN ReturnedPhoneCandidates :
       HasValidator(ReturnedPhoneCandidates[i], "default_country_assumed")
          <=> CountryCodeAdded(ReturnedPhoneCandidates[i])

\* d is a date written as four digits, "-", two digits, "-", two digits
IsPaddedIsoDate(d) ==
    /\ Len(d) = 10
    /\ d[5] = "-" /\ d[8] = "-"
    /\ \A i \in {1, 2, 3, 4, 6, 7, 9, 10} : d[i] \in Digits

\* C25: normalize_date accepts its own output unchanged: whenever it
\* returns a date d for an input, d is a zero-padded YYYY-MM-DD string and
\* normalize_date(d) = d.
C25_NormalizeDateRoundTrip ==
    Returned("normalize_date") /\ call.out # NoDate =>
       /\ IsPaddedIsoDate(call.out)
       /\ normalize_date(call.out) = call.out

C25_Witness ==
    /\ Returned("normalize_date")
    /\ call.args.text = <<"1","/","3","1","/","1","9","9","0","5">>
    /\ call.out = <<"1","9","9","0","-","0","1","-","3","1">>

\* the error events of the run as a whole
RunErrorEvents ==
    SelectSeq(trace, LAMBDA e : e.step = << "extract_candidates" >> /\ e.status = "error")

\* the exception, if any, that the last client call let out to the run
Escaped ==
    IF invocations = << >> THEN ""
    ELSE LET outcome == invocations[Len(invocations)].outcome
         IN IF outcome \in {"pending", "returned", "LLMInvalidJSONError"} THEN ""
            ELSE outcome

\* C26: any exception raised during a run, other than LLMInvalidJSONError
\* from the generator call, aborts the run: a client call that lets out
\* another exception, or a failure while loading, ends the run with that
\* exception raised; a run that raised has appended exactly one error-status
\* extract_candidates event, carrying the kind of the exception, as the last
\* event of its trace, has returned nothing, and has not written
\* candidates.json.
C26_OtherExceptionsAbort ==
    /\ Escaped # "" => pc = "raised" /\ raised = Escaped
    /\ pc = "raised" =>
          /\ raised # "LLMInvalidJSONError"
          /\ Len(RunErrorEvents) = 1
          /\ RunErrorEvents[1].error = raised
          /\ trace[Len(trace)] = RunErrorEvents[1]
          /\ EventCount(<< "extract_candidates" >>) = 1
          /\ result = << >>
          /\ ~candidates_json.written
    /\ pc # "raised" => raised = "" /\ RunErrorEvents = << >>

\* a transport error on the second field, after the first field was completed
C26_Witness ==
    /\ pc = "raised"
    /\ raised = "RuntimeError"
    /\ fi = 2
    /\ all_candidates # << >>
    /\ Len(invocations) = 2
    /\ Len(trace) > 1

\* a failure while loading
C26_WitnessLoad ==
    /\ pc = "raised"
    /\ raised = "FileNotFoundError"
    /\ invocations = << >>

\* C27: every heuristic candidate is supported by its own evidence: each
\* candidate heuristic_candidates_for_field returns passes
\* evidence_supports_value under the FieldSpec of its key, so the heuristic
\* pass of a run never marks a heuristic candidate "unsupported_by_evidence".
C27_HeuristicAlwaysSupported ==
    /\ Returned("heuristic_candidates_for_field") =>
          \A i \in DOMAIN call.out :
             evidence_supports_value(call.args.field, call.out[i])
    /\ \A i \in DOMAIN field_candidates :
          field_candidates[i].from_method = "heuristic" => is_accepted(field_candidates[i])
    /\ \A i \in DOMAIN all_candidates :
          all_candidates[i].from_method = "heuristic" => is_accepted(all_candidates[i])

\* C28: every accepted candidate of the emitted list carries a real value:
\* its normalized_value is non-empty and so is normalize_text of it.
C28_AcceptedHasValue ==
    pc = "done" =>
       \A i \in DOMAIN result :
          is_accepted(result[i]) =>
             /\ result[i].normalized_value # << >>
             /\ normalize_text(result[i].normalized_value) # << >>

\* the heuristic candidates the run has made so far
HeuristicProduced == SelectSeq(produced, LAMBDA c : c.from_method = "heuristic")

\* C29: the escalation threshold is never met: the provisional confidence of
\* a heuristic candidate, 0.45 x anchor_match, stays below 0.75, so every
\* processed field with a routed document is escalated, whatever the
\* heuristic pass found: its statistics say so and its llm event is in the
\* trace.
C29_AlwaysEscalates ==
    /\ \A i \in DOMAIN HeuristicProduced :
          _compute_provisional_confidence(HeuristicProduced[i]) < AUTOFILL_THRESHOLD
    /\ \A key \in DOMAIN field_stats :
          HasRoutedDocs(key) =>
             /\ field_stats[key].llm_used
             /\ EventCount(<< "field", key, "llm" >>) = 1

\* a completed run of two fields, each with an accepted anchored heuristic
\* candidate, and the client called for both
C29_Witness ==
    /\ pc = "done"
    /\ Len(fields_to_process) = 2
    /\ \A f \in DOMAIN fields_to_process :
          /\ HasRoutedDocs(fields_to_process[f].key)
          /\ \E c \in AcceptedHeuristic(fields_to_process[f].key) :
                _compute_provisional_confidence(c) = 45
          /\ InvocationsFor(fields_to_process[f].key) # {}

\* how often candidate c occurs in the list s
CountOf(s, c) == Cardinality({i \in DOMAIN s : s[i] = c})

\* C30: a generator failure does not lose heuristic results: when the client
\* raised LLMInvalidJSONError for a field, the emitted list holds for that
\* field exactly what the heuristic extractor gives for its routed documents,
\* each candidate with the rejected_reasons verification assigns to it, and
\* no generator candidate.
C30_FailureKeepsHeuristic ==
    pc = "done" =>
       \A n \in DOMAIN invocations :
          invocations[n].outcome = "LLMInvalidJSONError" =>
             LET key == invocations[n].field
                 field == SchemaField(key)
                 heuristic_candidates ==
                     heuristic_candidates_for_field(field,
                         _get_routed_docs(key, routing, Layout))
                 emitted == SelectSeq(result, LAMBDA c : c.field = key)
             IN /\ Len(emitted) = Len(heuristic_candidates)
                /\ \A i \in DOMAIN emitted : emitted[i].from_method = "heuristic"
                /\ \A i \in DOMAIN heuristic_candidates :
                      LET c == heuristic_candidates[i]
                          checked ==
                              IF evidence_supports_value(field, c) THEN c
                              ELSE [c EXCEPT !.rejected_reasons =
                                                << "unsupported_by_evidence" >>]
                      IN CountOf(emitted, checked) >= 1

\* the client failed for a field that has an accepted and a rejected
\* heuristic candidate, and succeeded with candidates for another field
C30_Witness ==
    /\ pc = "done"
    /\ Len(invocations) = 2
    /\ invocations[1].outcome = "LLMInvalidJSONError"
    /\ invocations[2].outcome = "returned"
    /\ \E i, j \in DOMAIN result :
          /\ result[i].field = invocations[1].field
          /\ result[j].field = invocations[1].field
          /\ is_accepted(result[i])
          /\ ~is_accepted(result[j])
    /\ \E i \in DOMAIN result :
          result[i].field = invocations[2].field /\ result[i].from_method = "llm"

=============================================================================
